---------------------------- MODULE Spec2Model ----------------------------
(***************************************************************************)
(* Dependency resolver and source bundler of the Pryzma project manager    *)
(* (pryzma_manager.py): the graph pass resolve_pryzma_dependencies and the *)
(* bundling pass PryzmaSourceBundler.bundle, run one after the other on a  *)
(* source tree, as build_file and build_project do, with their fatal       *)
(* checks, the optional auto-fetch of missing packages between two graph   *)
(* passes, and the manifest and generated file they write.                 *)
(*                                                                         *)
(* Text is modelled lexically.  A whitespace-free word is a record         *)
(*   [q, dir, stem, ext]: quoted or not, the "/"-separated directory       *)
(* segments before the file name, the file name up to its last ".", and    *)
(* the extension after it.  A string made of several words joined by       *)
(* single spaces is the sequence of its words.  A path is [dir, stem, ext] *)
(* with an absolute dir (first segment "/").  A physical line is           *)
(*   [kind, toks, name, id, n]:                                            *)
(*     "use"     the line starts with "use ", toks are the words after it  *)
(*     "insert"  the line starts with "#insert", toks the words after it   *)
(*     "func"    the line is "/" followed by the "."-separated run `name`  *)
(*     "comment" the line is "/" followed by `name` ++ <<"/">> and a space *)
(*               (a "//" comment; name is <<>> in a source file)           *)
(*     "text"    any other line, identified by id                          *)
(*     "header"  a delimiter comment generated by bundle(): n is the       *)
(*               position, id the label                                    *)
(*     "blank"   an empty line                                             *)
(* Source trees hold no symbolic links, so os.path.realpath is the         *)
(* normalisation os.path.normpath already does.                            *)
(***************************************************************************)
EXTENDS Naturals, Sequences, FiniteSets, TLC

VARIABLES
    fs,               \* the source tree: path -> sequence of lines
    phase,            \* position of the build: "start", "aborted" (sys.exit),
                      \* "graph", "fetch", "bundle", "done" (bundle() returned),
                      \* "manifest", "built", "error" (an exception escaped)
    visited,          \* resolve_pryzma_dependencies: visited
    ordered,          \* resolve_pryzma_dependencies: ordered
    graph,            \* resolve_pryzma_dependencies: graph (adjacency map)
    missing,          \* resolve_pryzma_dependencies: missing
    cycles,           \* resolve_pryzma_dependencies: cycles
    vstack,           \* call stack of visit(): frames [path, trail, dirs, i, pc]
    module_sources,   \* PryzmaSourceBundler._module_sources (ordered)
    processing,       \* PryzmaSourceBundler._processing
    module_metadata,  \* PryzmaSourceBundler._module_metadata
    bstack,           \* call stack of _process_file / _include_module
    ret,              \* value returned by the call that just ended
    bundled,          \* text returned by bundle()
    requested,        \* history: keys in the order _include_module first saw them
    opened,           \* history: the files this bundler's _process_file has read
    firstRun,         \* history: what an earlier bundle() of the same tree returned
    denied,           \* the files open() refuses with PermissionError
    builder,          \* the command that runs: "build_file" or "build_project"
    auto_fetch,       \* args.auto_fetch
    resolutions,      \* history: how many graph passes were started
    missing_before,   \* the auto-fetch loop: the issues it walks
    fetch_i,          \* the auto-fetch loop: the issue it is at
    fetched,          \* history: the ppm_install calls, in order
    manifest_payload, \* manifest_payload, <<>> before it is built
    warnings,         \* the missing and cyclic dependencies printed as warnings
    manifest,         \* history: what was written to the manifest file
    artifact          \* history: what was written to <name>_generated.py

vars == <<fs, phase, visited, ordered, graph, missing, cycles, vstack,
          module_sources, processing, module_metadata, bstack, ret, bundled,
          requested, opened, firstRun, denied, builder, auto_fetch, resolutions,
          missing_before, fetch_i, fetched, manifest_payload, warnings,
          manifest, artifact>>

gvars == <<visited, ordered, graph, missing, cycles, vstack>>

bvars == <<module_sources, processing, module_metadata, bstack, ret, bundled,
           requested, opened>>

\* The state of build_file / build_project around the two passes
dvars == <<denied, builder, auto_fetch, resolutions, missing_before, fetch_i,
           fetched, manifest_payload, warnings, manifest, artifact>>

---------------------------------------------------------------------------
(* Words, paths, lines *)

Word(q, dir, stem, ext) == [q |-> q, dir |-> dir, stem |-> stem, ext |-> ext]

W(stem) == Word(FALSE, <<>>, stem, "")

Path(dir, stem, ext) == [dir |-> dir, stem |-> stem, ext |-> ext]

\* None, as returned by the resolvers
NoPath == Path(<<>>, "", "")

Line(kind, toks, name, id, n) ==
    [kind |-> kind, toks |-> toks, name |-> name, id |-> id, n |-> n]

UseLine(toks) == Line("use", toks, <<>>, "", 0)

InsertLine(toks) == Line("insert", toks, <<>>, "", 0)

FuncLine(name) == Line("func", <<>>, name, "", 0)

CommentLine == Line("comment", <<>>, <<>>, "", 0)

TextLine(id) == Line("text", <<>>, <<>>, id, 0)

BlankLine == Line("blank", <<>>, <<>>, "", 0)

ProjectRoot == <<"/", "proj">>

PACKAGES_DIR == <<"/", "pkgs">>

\* The text of a file name: stem, or stem.ext
FullName(w) == IF w.ext = "" THEN w.stem ELSE w.stem \o "." \o w.ext

\* os.path.basename of a path
basename(p) == FullName(p)

\* os.path.splitext(os.path.basename(p))[0]
splitext_stem(p) == p.stem

\* os.path.dirname of a path
dirname(p) == p.dir

\* str.strip of the quote characters, on one word
Unquote(w) == [w EXCEPT !.q = FALSE]

RECURSIVE NormDir(_, _)
\* os.path.normpath on directory segments: "." is dropped, ".." pops
NormDir(segs, acc) ==
    IF segs = <<>> THEN acc
    ELSE IF Head(segs) = "." THEN NormDir(Tail(segs), acc)
    ELSE IF Head(segs) = ".." /\ Len(acc) > 1
         THEN NormDir(Tail(segs), SubSeq(acc, 1, Len(acc) - 1))
    ELSE IF Head(segs) = ".." THEN NormDir(Tail(segs), acc)
    ELSE NormDir(Tail(segs), Append(acc, Head(segs)))

\* os.path.isabs
isabs(w) == w.dir # <<>> /\ w.dir[1] = "/"

\* os.path.normpath(os.path.join(root, candidate))
JoinPath(root, w) ==
    IF isabs(w) THEN Path(NormDir(w.dir, <<>>), w.stem, w.ext)
    ELSE Path(NormDir(root \o w.dir, <<>>), w.stem, w.ext)

\* os.path.isfile
isfile(p) == p \in DOMAIN fs

\* os.path.isdir: a directory exists when the tree holds a file under it
isdir(d) == \E p \in DOMAIN fs : Len(p.dir) >= Len(d) /\ SubSeq(p.dir, 1, Len(d)) = d

RECURSIVE FirstFile(_)
\* The first path of a sequence that is a file, or None
FirstFile(ps) ==
    IF ps = <<>> THEN NoPath
    ELSE IF isfile(Head(ps)) THEN Head(ps)
    ELSE FirstFile(Tail(ps))

RECURSIVE Flatten(_)
Flatten(ss) == IF ss = <<>> THEN <<>> ELSE Head(ss) \o Flatten(Tail(ss))

---------------------------------------------------------------------------
(* ReferenceResolver *)

\* str.split("::") with the empty parts dropped, on the names the trees use
SplitColons(n) ==
    CASE n = "p::s" -> <<"p", "s">>
      [] n = "p::q::s" -> <<"p", "q", "s">>
      [] OTHER -> <<n>>

\* Variant of _resolve_package_reference: the .prz file is preferred
_resolve_package_reference_AltFirst(reference) ==
    IF reference = <<>> \/ Len(reference) > 1 THEN NoPath
    ELSE LET w == Unquote(reference[1])
             n == FullName(w)
             parts == SplitColons(n)
             file_name == parts[Len(parts)]
             folder == IF Len(parts) > 1 THEN SubSeq(parts, 1, Len(parts) - 1)
                       ELSE <<n>>
             candidate == Path(PACKAGES_DIR \o folder, file_name, "pryzma")
             alt_candidate == Path(PACKAGES_DIR \o folder, file_name, "prz")
         IN  IF n = "" THEN NoPath
             ELSE IF w.dir # <<>> \/ w.stem = "" THEN NoPath
             ELSE IF isfile(alt_candidate) THEN alt_candidate
             ELSE IF isfile(candidate) THEN candidate
             ELSE NoPath

\* _resolve_package_reference: a name with a "/" or a leading "." is no
\* package; p1::..::pk::stem resolves to PACKAGES_DIR/p1/../pk/stem.pryzma
\* and a bare name to PACKAGES_DIR/name/name.pryzma, or to the same path
\* with .prz when the first is no file and the second is.
\* References are strings: the sequence of their words.
_resolve_package_reference(reference) ==
    IF reference = <<>> \/ Len(reference) > 1 THEN NoPath
    ELSE LET w == Unquote(reference[1])
             n == FullName(w)
             parts == SplitColons(n)
             file_name == parts[Len(parts)]
             folder == IF Len(parts) > 1 THEN SubSeq(parts, 1, Len(parts) - 1)
                       ELSE <<n>>
             candidate == Path(PACKAGES_DIR \o folder, file_name, "pryzma")
             alt_candidate == Path(PACKAGES_DIR \o folder, file_name, "prz")
         IN  IF n = "" THEN NoPath
             ELSE IF w.dir # <<>> \/ w.stem = "" THEN NoPath
             ELSE IF isfile(candidate) THEN candidate
             ELSE IF isfile(alt_candidate) THEN alt_candidate
             ELSE NoPath

\* The candidate file names of resolve_pryzma_reference
Candidates(w) ==
    IF w.ext = "pryzma" THEN <<w>>
    ELSE IF w.ext = "" THEN <<w, [w EXCEPT !.ext = "pryzma"]>>
    ELSE <<w, [w EXCEPT !.stem = FullName(w), !.ext = "pryzma"]>>

\* Variant of SearchRoots: the project root is searched before the directory
\* of the referring file
SearchRoots_RootFirst(w, current_dir, project_root) ==
    IF isabs(w) THEN <<<<>>>>
    ELSE <<project_root>>
         \o (IF current_dir # <<>> THEN <<current_dir>> ELSE <<>>)
         \o (IF isdir(project_root \o <<"src">>)
             THEN <<project_root \o <<"src">>>> ELSE <<>>)

\* The search roots of resolve_pryzma_reference
SearchRoots(w, current_dir, project_root) ==
    IF isabs(w) THEN <<<<>>>>
    ELSE (IF current_dir # <<>> THEN <<current_dir>> ELSE <<>>)
         \o <<project_root>>
         \o (IF isdir(project_root \o <<"src">>)
             THEN <<project_root \o <<"src">>>> ELSE <<>>)

\* Variant of resolve_pryzma_reference: an installed package is looked up
\* before the file system
resolve_pryzma_reference_PackageFirst(reference, current_dir, project_root) ==
    IF reference = <<>> THEN NoPath
    ELSE LET w == Unquote(reference[1])
             roots == SearchRoots(w, current_dir, project_root)
             tries == IF Len(reference) > 1 THEN <<>>
                      ELSE Flatten([r \in 1..Len(roots) |->
                               [c \in 1..Len(Candidates(w)) |->
                                   JoinPath(roots[r], Candidates(w)[c])]])
             hit == _resolve_package_reference(reference)
         IN  IF hit # NoPath THEN hit
             ELSE FirstFile(tries)

\* resolve_pryzma_reference.  A file name of several words names no file of
\* the modelled trees, so only one-word references reach the file system.
resolve_pryzma_reference(reference, current_dir, project_root) ==
    IF reference = <<>> THEN NoPath
    ELSE LET w == Unquote(reference[1])
             roots == SearchRoots(w, current_dir, project_root)
             tries == IF Len(reference) > 1 THEN <<>>
                      ELSE Flatten([r \in 1..Len(roots) |->
                               [c \in 1..Len(Candidates(w)) |->
                                   JoinPath(roots[r], Candidates(w)[c])]])
             hit == FirstFile(tries)
         IN  IF hit # NoPath THEN hit
             ELSE _resolve_package_reference(reference)

---------------------------------------------------------------------------
(* DirectiveScanner *)

\* _sanitize_reference_fragment: the first word of the fragment, unquoted
\* (every stop marker starts with a space, so it cuts at a word boundary
\* after the first word)
_sanitize_reference_fragment(toks) ==
    IF toks = <<>> THEN <<>> ELSE <<Unquote(toks[1])>>

RECURSIVE ScanDirectives(_, _)
ScanDirectives(lines, idx) ==
    IF idx > Len(lines) THEN <<>>
    ELSE LET l == lines[idx]
             fragment == _sanitize_reference_fragment(l.toks)
         IN  (IF l.kind \in {"insert", "use"} /\ fragment # <<>>
              THEN <<[type |-> l.kind, target |-> fragment, line |-> idx]>>
              ELSE <<>>)
             \o ScanDirectives(lines, idx + 1)

\* parse_pryzma_directives: a missing file has no directives
parse_pryzma_directives(file_path) ==
    IF file_path \in DOMAIN fs THEN ScanDirectives(fs[file_path], 1) ELSE <<>>

---------------------------------------------------------------------------
(* DependencyGraphBuilder: resolve_pryzma_dependencies *)

\* The entry file handed to build_file; its directory is the project root
EntryPath == Path(ProjectRoot, "a", "pryzma")

VFrame(path, trail) ==
    [path |-> path, trail |-> trail, dirs |-> <<>>, i |-> 1, pc |-> "enter"]

Top(stack) == stack[Len(stack)]

Pop(stack) == SubSeq(stack, 1, Len(stack) - 1)

SetTop(stack, f) == [stack EXCEPT ![Len(stack)] = f]

InSeq(x, s) == \E k \in 1..Len(s) : s[k] = x

\* list.index
IndexOf(x, s) == CHOOSE k \in 1..Len(s) : s[k] = x /\ \A j \in 1..(k - 1) : s[j] # x

\* Variant of VisitCycle: the call returns without recording anything
VisitCycle_Silent ==
    /\ phase = "graph" /\ vstack # <<>>
    /\ LET f == Top(vstack) IN
        /\ f.pc = "enter"
        /\ InSeq(f.path, f.trail)
        /\ vstack' = Pop(vstack)
    /\ UNCHANGED dvars
    /\ UNCHANGED <<fs, firstRun, phase, visited, ordered, graph, missing, cycles>>
    /\ UNCHANGED bvars

\* Variant of VisitCycle: the recorded path is the whole trail, not the
\* slice from the repeated file
VisitCycle_WholeTrail ==
    /\ phase = "graph" /\ vstack # <<>>
    /\ LET f == Top(vstack) IN
        /\ f.pc = "enter"
        /\ InSeq(f.path, f.trail)
        /\ cycles' = Append(cycles, f.trail \o <<f.path>>)
        /\ vstack' = Pop(vstack)
    /\ UNCHANGED dvars
    /\ UNCHANGED <<fs, firstRun, phase, visited, ordered, graph, missing>>
    /\ UNCHANGED bvars

\* Variant of VisitCycle: the recorded path lacks the closing node
VisitCycle_Open ==
    /\ phase = "graph" /\ vstack # <<>>
    /\ LET f == Top(vstack) IN
        /\ f.pc = "enter"
        /\ InSeq(f.path, f.trail)
        /\ cycles' = Append(cycles,
               SubSeq(f.trail, IndexOf(f.path, f.trail), Len(f.trail)))
        /\ vstack' = Pop(vstack)
    /\ UNCHANGED dvars
    /\ UNCHANGED <<fs, firstRun, phase, visited, ordered, graph, missing>>
    /\ UNCHANGED bvars

\* visit(): real_path is on the trail: record the cycle and return
VisitCycle ==
    /\ phase = "graph" /\ vstack # <<>>
    /\ LET f == Top(vstack) IN
        /\ f.pc = "enter"
        /\ InSeq(f.path, f.trail)
        /\ cycles' = Append(cycles,
               SubSeq(f.trail, IndexOf(f.path, f.trail), Len(f.trail)) \o <<f.path>>)
        /\ vstack' = Pop(vstack)
    /\ UNCHANGED dvars
    /\ UNCHANGED <<fs, firstRun, phase, visited, ordered, graph, missing>>
    /\ UNCHANGED bvars

\* Variant of VisitSeen: a file met again off the trail is recorded as a cycle
VisitSeen_Cycle ==
    /\ phase = "graph" /\ vstack # <<>>
    /\ LET f == Top(vstack) IN
        /\ f.pc = "enter"
        /\ ~InSeq(f.path, f.trail)
        /\ f.path \in visited
        /\ cycles' = Append(cycles, <<f.path, f.path>>)
        /\ vstack' = Pop(vstack)
    /\ UNCHANGED dvars
    /\ UNCHANGED <<fs, firstRun, phase, visited, ordered, graph, missing>>
    /\ UNCHANGED bvars

\* Variant of VisitSeen: a file met again is scanned again, its adjacency
\* list starts over
VisitSeen_Rescan ==
    /\ phase = "graph" /\ vstack # <<>>
    /\ LET f == Top(vstack) IN
        /\ f.pc = "enter"
        /\ ~InSeq(f.path, f.trail)
        /\ f.path \in visited
        /\ graph' = [graph EXCEPT ![f.path] = <<>>]
        /\ vstack' = SetTop(vstack,
               [f EXCEPT !.dirs = parse_pryzma_directives(f.path), !.pc = "loop"])
    /\ UNCHANGED dvars
    /\ UNCHANGED <<fs, firstRun, phase, visited, ordered, missing, cycles>>
    /\ UNCHANGED bvars

\* visit(): real_path was visited before: return
VisitSeen ==
    /\ phase = "graph" /\ vstack # <<>>
    /\ LET f == Top(vstack) IN
        /\ f.pc = "enter"
        /\ ~InSeq(f.path, f.trail)
        /\ f.path \in visited
        /\ vstack' = Pop(vstack)
    /\ UNCHANGED dvars
    /\ UNCHANGED <<fs, firstRun, phase, visited, ordered, graph, missing, cycles>>
    /\ UNCHANGED bvars

\* Variant of VisitScan: the file is not added to visited
VisitScan_NoMark ==
    /\ phase = "graph" /\ vstack # <<>>
    /\ LET f == Top(vstack) IN
        /\ f.pc = "enter"
        /\ ~InSeq(f.path, f.trail)
        /\ f.path \notin visited
        /\ f.path \notin denied
        /\ ordered' = Append(ordered, f.path)
        /\ graph' = [p \in DOMAIN graph \cup {f.path} |->
                         IF p = f.path THEN <<>> ELSE graph[p]]
        /\ vstack' = SetTop(vstack,
               [f EXCEPT !.dirs = parse_pryzma_directives(f.path), !.pc = "loop"])
    /\ UNCHANGED dvars
    /\ UNCHANGED <<fs, firstRun, phase, visited, missing, cycles>>
    /\ UNCHANGED bvars

\* visit(): a new file: mark it, record it and scan its directives
VisitScan ==
    /\ phase = "graph" /\ vstack # <<>>
    /\ LET f == Top(vstack) IN
        /\ f.pc = "enter"
        /\ ~InSeq(f.path, f.trail)
        /\ f.path \notin visited
        /\ f.path \notin denied
        /\ visited' = visited \cup {f.path}
        /\ ordered' = Append(ordered, f.path)
        /\ graph' = [p \in DOMAIN graph \cup {f.path} |->
                         IF p = f.path THEN <<>> ELSE graph[p]]
        /\ vstack' = SetTop(vstack,
               [f EXCEPT !.dirs = parse_pryzma_directives(f.path), !.pc = "loop"])
    /\ UNCHANGED dvars
    /\ UNCHANGED <<fs, firstRun, phase, missing, cycles>>
    /\ UNCHANGED bvars

\* visit(): a new file that open() refuses: it is marked and recorded, then
\* the PermissionError of parse_pryzma_directives, which catches
\* FileNotFoundError only, leaves resolve_pryzma_dependencies
VisitDenied ==
    /\ phase = "graph" /\ vstack # <<>>
    /\ LET f == Top(vstack) IN
        /\ f.pc = "enter"
        /\ ~InSeq(f.path, f.trail)
        /\ f.path \notin visited
        /\ f.path \in denied
        /\ visited' = visited \cup {f.path}
        /\ ordered' = Append(ordered, f.path)
        /\ graph' = [p \in DOMAIN graph \cup {f.path} |->
                         IF p = f.path THEN <<>> ELSE graph[p]]
        /\ vstack' = <<>>
        /\ phase' = "error"
    /\ UNCHANGED dvars
    /\ UNCHANGED <<fs, firstRun, missing, cycles>>
    /\ UNCHANGED bvars

\* Variant of VisitMissing: the failure ends the scan of the file
VisitMissing_Abort ==
    /\ phase = "graph" /\ vstack # <<>>
    /\ LET f == Top(vstack) IN
        /\ f.pc = "loop" /\ f.i <= Len(f.dirs)
        /\ LET d == f.dirs[f.i]
               resolved == resolve_pryzma_reference(d.target, dirname(f.path), ProjectRoot)
           IN  /\ resolved = NoPath
               /\ missing' = Append(missing,
                      [source |-> f.path, target |-> d.target,
                       line |-> d.line, type |-> d.type])
               /\ vstack' = Pop(vstack)
    /\ UNCHANGED dvars
    /\ UNCHANGED <<fs, firstRun, phase, visited, ordered, graph, cycles>>
    /\ UNCHANGED bvars

\* Variant of VisitMissing: the entry carries the target as the resolver
\* looked it up, with the default extension
VisitMissing_Normalized ==
    /\ phase = "graph" /\ vstack # <<>>
    /\ LET f == Top(vstack) IN
        /\ f.pc = "loop" /\ f.i <= Len(f.dirs)
        /\ LET d == f.dirs[f.i]
               resolved == resolve_pryzma_reference(d.target, dirname(f.path), ProjectRoot)
           IN  /\ resolved = NoPath
               /\ missing' = Append(missing,
                      [source |-> f.path,
                       target |-> <<[d.target[1] EXCEPT !.ext = "pryzma"]>>,
                       line |-> d.line, type |-> d.type])
               /\ vstack' = SetTop(vstack, [f EXCEPT !.i = f.i + 1])
    /\ UNCHANGED dvars
    /\ UNCHANGED <<fs, firstRun, phase, visited, ordered, graph, cycles>>
    /\ UNCHANGED bvars

\* visit(): the next directive does not resolve: record it as missing
VisitMissing ==
    /\ phase = "graph" /\ vstack # <<>>
    /\ LET f == Top(vstack) IN
        /\ f.pc = "loop" /\ f.i <= Len(f.dirs)
        /\ LET d == f.dirs[f.i]
               resolved == resolve_pryzma_reference(d.target, dirname(f.path), ProjectRoot)
           IN  /\ resolved = NoPath
               /\ missing' = Append(missing,
                      [source |-> f.path, target |-> d.target,
                       line |-> d.line, type |-> d.type])
               /\ vstack' = SetTop(vstack, [f EXCEPT !.i = f.i + 1])
    /\ UNCHANGED dvars
    /\ UNCHANGED <<fs, firstRun, phase, visited, ordered, graph, cycles>>
    /\ UNCHANGED bvars

\* visit(): the next directive resolves: record the edge and visit the target
VisitRecurse ==
    /\ phase = "graph" /\ vstack # <<>>
    /\ LET f == Top(vstack) IN
        /\ f.pc = "loop" /\ f.i <= Len(f.dirs)
        /\ LET d == f.dirs[f.i]
               resolved == resolve_pryzma_reference(d.target, dirname(f.path), ProjectRoot)
           IN  /\ resolved # NoPath
               /\ graph' = [graph EXCEPT ![f.path] = Append(@, resolved)]
               /\ vstack' = Append(SetTop(vstack, [f EXCEPT !.i = f.i + 1]),
                                   VFrame(resolved, Append(f.trail, f.path)))
    /\ UNCHANGED dvars
    /\ UNCHANGED <<fs, firstRun, phase, visited, ordered, missing, cycles>>
    /\ UNCHANGED bvars

\* visit(): every directive is done: return
VisitReturn ==
    /\ phase = "graph" /\ vstack # <<>>
    /\ LET f == Top(vstack) IN
        /\ f.pc = "loop" /\ f.i > Len(f.dirs)
        /\ vstack' = Pop(vstack)
    /\ UNCHANGED dvars
    /\ UNCHANGED <<fs, firstRun, phase, visited, ordered, graph, missing, cycles>>
    /\ UNCHANGED bvars

---------------------------------------------------------------------------
(* SourceBundler: helpers *)

\* str.lower on the words the trees use
Lower(s) ==
    CASE s = "WITH" -> "with"
      [] s = "AS" -> "as"
      [] s = "NAN" -> "nan"
      [] OTHER -> s

\* The text of a word as written, when it is a plain unquoted word
IsKeyword(w, k) == ~w.q /\ w.dir = <<>> /\ Lower(FullName(w)) = k

\* token.strip(',').lower() of a modifier: quotes stay
Modifier(w) == IF w.q THEN "\"" \o FullName(w) \o "\"" ELSE Lower(FullName(w))

RECURSIVE ParseTokens(_, _, _, _)
\* The token loop of parse_use_statement, from token i on; mode "with" is
\* the inner loop that collects modifiers up to the next "as"
ParseTokens(tokens, i, mode, acc) ==
    IF i > Len(tokens) THEN acc
    ELSE LET t == tokens[i] IN
         IF mode = "with"
         THEN IF IsKeyword(t, "as")
              THEN ParseTokens(tokens, i, "target", acc)
              ELSE ParseTokens(tokens, i + 1, "with",
                       [acc EXCEPT !.directives = @ \cup {Modifier(t)}])
         ELSE IF IsKeyword(t, "with")
         THEN ParseTokens(tokens, i + 1, "with", acc)
         ELSE IF IsKeyword(t, "as")
         THEN IF i + 1 <= Len(tokens)
              THEN ParseTokens(tokens, i + 2, "target",
                       [acc EXCEPT !.alias = FullName(Unquote(tokens[i + 1]))])
              ELSE ParseTokens(tokens, i + 1, "target", acc)
         ELSE ParseTokens(tokens, i + 1, "target",
                  [acc EXCEPT !.target = Append(@, Unquote(t))])

\* parse_use_statement on the words after "use": the target (its words), the
\* alias ("" for None) and the set of modifiers
parse_use_statement(line) ==
    ParseTokens(line.toks, 1, "target",
                [target |-> <<>>, alias |-> "", directives |-> {}])

\* What FUNCTION_DEF_PATTERN matches at the start of a line: the run of
\* non-blank characters after the leading "/", as "."-separated segments.
\* A "//" comment matches too: its run ends with the second "/".
MatchedRun(l) ==
    IF l.kind = "func" THEN l.name
    ELSE IF l.kind = "comment" THEN l.name \o <<"/">>
    ELSE <<>>

\* Variant of PrefixLine: a name that starts with the alias is prefixed too
PrefixLine_Always(l, alias) ==
    IF MatchedRun(l) = <<>> THEN l ELSE [l EXCEPT !.name = <<alias>> \o @]

\* _prefix_module_functions._replace on one line
PrefixLine(l, alias) ==
    LET run == MatchedRun(l) IN
    IF run = <<>> THEN l
    ELSE IF Len(run) > 1 /\ run[1] = alias THEN l
    ELSE [l EXCEPT !.name = <<alias>> \o @]

\* _prefix_module_functions
_prefix_module_functions(source, alias) ==
    IF alias = "" THEN source
    ELSE [k \in 1..Len(source) |-> PrefixLine(source[k], alias)]

\* Variant of Key: the alias is left out of the key
Key_NoAlias(path, alias, nan) == [path |-> path, alias |-> "", nan |-> nan]

\* A ModuleKey
Key(path, alias, nan) == [path |-> path, alias |-> alias, nan |-> nan]

Keys(table) == [k \in 1..Len(table) |-> table[k].key]

KeySet(table) == {table[k].key : k \in 1..Len(table)}

\* OrderedDict.__setitem__: a new key goes last, a known key keeps its place
SetItem(table, key, body) ==
    IF key \in KeySet(table)
    THEN [k \in 1..Len(table) |->
             IF table[k].key = key THEN [key |-> key, body |-> body] ELSE table[k]]
    ELSE Append(table, [key |-> key, body |-> body])

RECURSIVE RStrip(_)
\* str.rstrip on a text: trailing empty lines go
RStrip(text) ==
    IF text # <<>> /\ text[Len(text)].kind = "blank"
    THEN RStrip(SubSeq(text, 1, Len(text) - 1))
    ELSE text

\* Variant of HeaderLine: positions count from 0
HeaderLine_ZeroBased(idx, key) ==
    Line("header", <<>>, <<>>,
         IF key.alias # "" THEN key.alias ELSE basename(key.path), idx - 1)

\* The delimiter comment of bundle()
HeaderLine(idx, key) ==
    Line("header", <<>>, <<>>,
         IF key.alias # "" THEN key.alias ELSE basename(key.path), idx)

\* module_source.rstrip() + "\n": an empty body leaves one empty line
ModulePart(body) == IF RStrip(body) = <<>> THEN <<BlankLine>> ELSE RStrip(body)

RECURSIVE JoinParts(_)
\* "\n".join of parts that each end with a line break
JoinParts(parts) ==
    IF parts = <<>> THEN <<>>
    ELSE IF Len(parts) = 1 THEN parts[1]
    ELSE parts[1] \o <<BlankLine>> \o JoinParts(Tail(parts))

\* The text bundle() builds from the module table and the entry body
CombinedText(table, entry_body) ==
    LET module_parts == Flatten([k \in 1..Len(table) |->
                            <<<<HeaderLine(k, table[k].key)>>, ModulePart(table[k].body)>>])
        parts == module_parts \o (IF entry_body # <<>> THEN <<entry_body>> ELSE <<>>)
    IN  JoinParts(parts)

---------------------------------------------------------------------------
(* SourceBundler: _process_file, _include_module, bundle *)

\* A call of _process_file(path)
PFrame(path) ==
    [fn |-> "process", path |-> path, alias |-> "", nan |-> FALSE,
     lines |-> <<>>, i |-> 1, output |-> <<>>, pc |-> "enter"]

\* A call of _include_module(module_path, alias, nan_flag)
IFrame(path, alias, nan) ==
    [fn |-> "include", path |-> path, alias |-> alias, nan |-> nan,
     lines |-> <<>>, i |-> 1, output |-> <<>>, pc |-> "enter"]

\* The line _process_file is at
CurLine(f) == f.lines[f.i]

AtLine(f) == f.fn = "process" /\ f.pc = "loop" /\ f.i <= Len(f.lines)

\* The file a use line resolves to, or None
UseTarget(f) ==
    resolve_pryzma_reference(parse_use_statement(CurLine(f)).target,
                             dirname(f.path), ProjectRoot)

\* Variant of NanFlag: only the "#nan" spelling counts
NanFlag_HashOnly(parsed) == "#nan" \in parsed.directives

\* nan_flag of _process_file
NanFlag(parsed) == ("#nan" \in parsed.directives) \/ ("nan" \in parsed.directives)

\* Variant of UseAlias: a missing alias is not replaced by the base name
UseAlias_NoDefault(parsed, resolved) == parsed.alias

\* The alias _process_file hands to _include_module
UseAlias(parsed, resolved) ==
    IF ~NanFlag(parsed)
    THEN (IF parsed.alias # "" THEN parsed.alias ELSE splitext_stem(resolved))
    ELSE parsed.alias

\* The file an #insert line resolves to, or None
InsertTarget(f) ==
    resolve_pryzma_reference(_sanitize_reference_fragment(CurLine(f).toks),
                             dirname(f.path), ProjectRoot)

\* The condition of the auto-fetch block, evaluated on the first resolution
FetchWanted == auto_fetch /\ missing # <<>> /\ resolutions = 1

\* build_file / build_project: the resolution is final: the manifest payload
\* is built from it, its warnings are printed, a fresh bundler starts bundle()
StartBundle ==
    /\ phase = "graph" /\ vstack = <<>>
    /\ ~FetchWanted
    /\ manifest_payload' = [entry_point |-> EntryPath, ordered_files |-> ordered,
                            missing |-> missing, cycles |-> cycles]
    /\ warnings' = [missing |-> missing, cycles |-> cycles]
    /\ phase' = "bundle"
    /\ module_sources' = <<>>
    /\ processing' = {}
    /\ module_metadata' = <<>>
    /\ bstack' = <<PFrame(EntryPath)>>
    /\ UNCHANGED <<denied, builder, auto_fetch, resolutions, missing_before, fetch_i,
                   fetched, manifest, artifact>>
    /\ UNCHANGED <<fs, firstRun, ret, bundled, requested>>
    /\ UNCHANGED gvars
    /\ opened' = {}

\* Variant of ProcessSkip: the skipped file is taken out of the in-progress set
ProcessSkip_Unmark ==
    /\ phase = "bundle" /\ bstack # <<>>
    /\ LET f == Top(bstack) IN
        /\ f.fn = "process" /\ f.pc = "enter"
        /\ ~(f.path \notin processing /\ isfile(f.path))
        /\ ret' = <<>>
        /\ processing' = processing \ {f.path}
        /\ bstack' = Pop(bstack)
    /\ UNCHANGED dvars
    /\ UNCHANGED <<fs, firstRun, phase, module_sources, module_metadata,
                   bundled, requested>>
    /\ UNCHANGED gvars
    /\ UNCHANGED opened

\* _process_file: the file is in progress, or cannot be read: return ""
ProcessSkip ==
    /\ phase = "bundle" /\ bstack # <<>>
    /\ LET f == Top(bstack) IN
        /\ f.fn = "process" /\ f.pc = "enter"
        /\ ~(f.path \notin processing /\ isfile(f.path))
        /\ ret' = <<>>
        /\ bstack' = Pop(bstack)
    /\ UNCHANGED dvars
    /\ UNCHANGED <<fs, firstRun, phase, module_sources, processing, module_metadata,
                   bundled, requested>>
    /\ UNCHANGED gvars
    /\ UNCHANGED opened

\* Variant of ProcessStart: the file is not marked as in progress
ProcessStart_NoMark ==
    /\ phase = "bundle" /\ bstack # <<>>
    /\ LET f == Top(bstack) IN
        /\ f.fn = "process" /\ f.pc = "enter"
        /\ f.path \notin processing /\ isfile(f.path)
        /\ f.path \notin denied
        /\ bstack' = SetTop(bstack, [f EXCEPT !.lines = fs[f.path], !.pc = "loop"])
    /\ UNCHANGED dvars
    /\ UNCHANGED <<fs, firstRun, phase, module_sources, processing,
                   module_metadata, ret, bundled, requested>>
    /\ UNCHANGED gvars
    /\ opened' = opened \cup {Top(bstack).path}

\* _process_file: read the lines and mark the file in progress
ProcessStart ==
    /\ phase = "bundle" /\ bstack # <<>>
    /\ LET f == Top(bstack) IN
        /\ f.fn = "process" /\ f.pc = "enter"
        /\ f.path \notin processing /\ isfile(f.path)
        /\ f.path \notin denied
        /\ processing' = processing \cup {f.path}
        /\ bstack' = SetTop(bstack, [f EXCEPT !.lines = fs[f.path], !.pc = "loop"])
    /\ UNCHANGED dvars
    /\ UNCHANGED <<fs, firstRun, phase, module_sources, module_metadata, ret, bundled,
                   requested>>
    /\ UNCHANGED gvars
    /\ opened' = opened \cup {Top(bstack).path}

\* _process_file: open() refuses the file: the PermissionError, which is not
\* a FileNotFoundError, leaves bundle()
ProcessDenied ==
    /\ phase = "bundle" /\ bstack # <<>>
    /\ LET f == Top(bstack) IN
        /\ f.fn = "process" /\ f.pc = "enter"
        /\ f.path \notin processing /\ isfile(f.path)
        /\ f.path \in denied
        /\ bstack' = <<>>
        /\ phase' = "error"
    /\ UNCHANGED dvars
    /\ UNCHANGED <<fs, firstRun, module_sources, processing, module_metadata, ret,
                   bundled, requested>>
    /\ UNCHANGED gvars
    /\ UNCHANGED opened

\* _process_file: a use line without target or whose target does not resolve
ProcessUseSkip ==
    /\ phase = "bundle" /\ bstack # <<>>
    /\ LET f == Top(bstack) IN
        /\ AtLine(f) /\ CurLine(f).kind = "use"
        /\ UseTarget(f) = NoPath
        /\ bstack' = SetTop(bstack, [f EXCEPT !.i = f.i + 1])
    /\ UNCHANGED dvars
    /\ UNCHANGED <<fs, firstRun, phase, module_sources, processing, module_metadata, ret,
                   bundled, requested>>
    /\ UNCHANGED gvars
    /\ UNCHANGED opened

\* _process_file: a use line that resolves: call _include_module
ProcessUse ==
    /\ phase = "bundle" /\ bstack # <<>>
    /\ LET f == Top(bstack) IN
        /\ AtLine(f) /\ CurLine(f).kind = "use"
        /\ UseTarget(f) # NoPath
        /\ LET parsed == parse_use_statement(CurLine(f))
               resolved == UseTarget(f)
           IN  bstack' = Append(SetTop(bstack, [f EXCEPT !.i = f.i + 1]),
                                IFrame(resolved, UseAlias(parsed, resolved),
                                       NanFlag(parsed)))
    /\ UNCHANGED dvars
    /\ UNCHANGED <<fs, firstRun, phase, module_sources, processing, module_metadata, ret,
                   bundled, requested>>
    /\ UNCHANGED gvars
    /\ UNCHANGED opened

\* _process_file: an #insert line whose target does not resolve
ProcessInsertSkip ==
    /\ phase = "bundle" /\ bstack # <<>>
    /\ LET f == Top(bstack) IN
        /\ AtLine(f) /\ CurLine(f).kind = "insert"
        /\ InsertTarget(f) = NoPath
        /\ bstack' = SetTop(bstack, [f EXCEPT !.i = f.i + 1])
    /\ UNCHANGED dvars
    /\ UNCHANGED <<fs, firstRun, phase, module_sources, processing, module_metadata, ret,
                   bundled, requested>>
    /\ UNCHANGED gvars
    /\ UNCHANGED opened

\* _process_file: an #insert line that resolves: call _process_file on it
ProcessInsert ==
    /\ phase = "bundle" /\ bstack # <<>>
    /\ LET f == Top(bstack) IN
        /\ AtLine(f) /\ CurLine(f).kind = "insert"
        /\ InsertTarget(f) # NoPath
        /\ bstack' = Append(SetTop(bstack, [f EXCEPT !.pc = "await"]),
                            PFrame(InsertTarget(f)))
    /\ UNCHANGED dvars
    /\ UNCHANGED <<fs, firstRun, phase, module_sources, processing, module_metadata, ret,
                   bundled, requested>>
    /\ UNCHANGED gvars
    /\ UNCHANGED opened

\* Variant of ProcessInsertReturn: the text goes in front of the output
ProcessInsertReturn_Prepend ==
    /\ phase = "bundle" /\ bstack # <<>>
    /\ LET f == Top(bstack) IN
        /\ f.fn = "process" /\ f.pc = "await"
        /\ bstack' = SetTop(bstack, [f EXCEPT !.output = ret \o @,
                                              !.i = f.i + 1, !.pc = "loop"])
    /\ UNCHANGED dvars
    /\ UNCHANGED <<fs, firstRun, phase, module_sources, processing, module_metadata, ret,
                   bundled, requested>>
    /\ UNCHANGED gvars
    /\ UNCHANGED opened

\* _process_file: the nested call returned: its text replaces the #insert line
ProcessInsertReturn ==
    /\ phase = "bundle" /\ bstack # <<>>
    /\ LET f == Top(bstack) IN
        /\ f.fn = "process" /\ f.pc = "await"
        /\ bstack' = SetTop(bstack, [f EXCEPT !.output = @ \o ret,
                                              !.i = f.i + 1, !.pc = "loop"])
    /\ UNCHANGED dvars
    /\ UNCHANGED <<fs, firstRun, phase, module_sources, processing, module_metadata, ret,
                   bundled, requested>>
    /\ UNCHANGED gvars
    /\ UNCHANGED opened

\* _process_file: any other line is emitted as it is
ProcessOther ==
    /\ phase = "bundle" /\ bstack # <<>>
    /\ LET f == Top(bstack) IN
        /\ AtLine(f) /\ CurLine(f).kind \notin {"use", "insert"}
        /\ bstack' = SetTop(bstack, [f EXCEPT !.output = Append(@, CurLine(f)),
                                              !.i = f.i + 1])
    /\ UNCHANGED dvars
    /\ UNCHANGED <<fs, firstRun, phase, module_sources, processing, module_metadata, ret,
                   bundled, requested>>
    /\ UNCHANGED gvars
    /\ UNCHANGED opened

\* Variant of ProcessReturn: the file stays in the in-progress set
ProcessReturn_NoUnmark ==
    /\ phase = "bundle" /\ bstack # <<>>
    /\ LET f == Top(bstack) IN
        /\ f.fn = "process" /\ f.pc = "loop" /\ f.i > Len(f.lines)
        /\ ret' = f.output
        /\ bstack' = Pop(bstack)
    /\ UNCHANGED dvars
    /\ UNCHANGED <<fs, firstRun, phase, module_sources, processing, module_metadata,
                   bundled, requested>>
    /\ UNCHANGED gvars
    /\ UNCHANGED opened

\* _process_file: the last line is done: unmark the file, return the text
ProcessReturn ==
    /\ phase = "bundle" /\ bstack # <<>>
    /\ LET f == Top(bstack) IN
        /\ f.fn = "process" /\ f.pc = "loop" /\ f.i > Len(f.lines)
        /\ processing' = processing \ {f.path}
        /\ ret' = f.output
        /\ bstack' = Pop(bstack)
    /\ UNCHANGED dvars
    /\ UNCHANGED <<fs, firstRun, phase, module_sources, module_metadata, bundled, requested>>
    /\ UNCHANGED gvars
    /\ UNCHANGED opened

\* The key _include_module computes
FrameKey(f) == Key(f.path, f.alias, f.nan)

\* The history of first requests
Request(key) == IF InSeq(key, requested) THEN requested ELSE Append(requested, key)

\* _include_module: the key is in the table: return
IncludeSkip ==
    /\ phase = "bundle" /\ bstack # <<>>
    /\ LET f == Top(bstack) IN
        /\ f.fn = "include" /\ f.pc = "enter"
        /\ FrameKey(f) \in KeySet(module_sources)
        /\ requested' = Request(FrameKey(f))
        /\ bstack' = Pop(bstack)
    /\ UNCHANGED dvars
    /\ UNCHANGED <<fs, firstRun, phase, module_sources, processing, module_metadata, ret,
                   bundled>>
    /\ UNCHANGED gvars
    /\ UNCHANGED opened

\* Variant of IncludeStart: the key enters the table when it is first met
IncludeStart_Reserve ==
    /\ phase = "bundle" /\ bstack # <<>>
    /\ LET f == Top(bstack) IN
        /\ f.fn = "include" /\ f.pc = "enter"
        /\ FrameKey(f) \notin KeySet(module_sources)
        /\ requested' = Request(FrameKey(f))
        /\ module_sources' = SetItem(module_sources, FrameKey(f), <<>>)
        /\ bstack' = Append(SetTop(bstack, [f EXCEPT !.pc = "await"]),
                            PFrame(f.path))
    /\ UNCHANGED dvars
    /\ UNCHANGED <<fs, firstRun, phase, processing, module_metadata, ret, bundled>>
    /\ UNCHANGED gvars
    /\ UNCHANGED opened

\* _include_module: a key not in the table: process the module's file
IncludeStart ==
    /\ phase = "bundle" /\ bstack # <<>>
    /\ LET f == Top(bstack) IN
        /\ f.fn = "include" /\ f.pc = "enter"
        /\ FrameKey(f) \notin KeySet(module_sources)
        /\ requested' = Request(FrameKey(f))
        /\ bstack' = Append(SetTop(bstack, [f EXCEPT !.pc = "await"]),
                            PFrame(f.path))
    /\ UNCHANGED dvars
    /\ UNCHANGED <<fs, firstRun, phase, module_sources, processing, module_metadata, ret,
                   bundled>>
    /\ UNCHANGED gvars
    /\ UNCHANGED opened

\* The body _include_module stores for a processed text
ModuleBody(f, body) ==
    IF ~f.nan
    THEN _prefix_module_functions(body,
             IF f.alias # "" THEN f.alias ELSE splitext_stem(f.path))
    ELSE body

\* Variant of IncludeFinish: a new key and its metadata go to the front
IncludeFinish_Front ==
    /\ phase = "bundle" /\ bstack # <<>>
    /\ LET f == Top(bstack)
           entry == [key |-> FrameKey(f), body |-> ModuleBody(f, ret)]
       IN
        /\ f.fn = "include" /\ f.pc = "await"
        /\ IF FrameKey(f) \in KeySet(module_sources)
           THEN module_sources' = SetItem(module_sources, FrameKey(f), ModuleBody(f, ret))
           ELSE module_sources' = <<entry>> \o module_sources
        /\ module_metadata' =
               <<[path |-> f.path, alias |-> f.alias, nan |-> f.nan]>> \o module_metadata
        /\ bstack' = Pop(bstack)
    /\ UNCHANGED dvars
    /\ UNCHANGED <<fs, firstRun, phase, processing, ret, bundled, requested>>
    /\ UNCHANGED gvars
    /\ UNCHANGED opened

\* Variant of IncludeFinish: the table is an unordered mapping, a new key
\* lands at any position
IncludeFinish_Unordered ==
    /\ phase = "bundle" /\ bstack # <<>>
    /\ LET f == Top(bstack)
           entry == [key |-> FrameKey(f), body |-> ModuleBody(f, ret)]
       IN
        /\ f.fn = "include" /\ f.pc = "await"
        /\ IF FrameKey(f) \in KeySet(module_sources)
           THEN module_sources' = SetItem(module_sources, FrameKey(f), ModuleBody(f, ret))
           ELSE \E at \in 0..Len(module_sources) :
                    module_sources' = SubSeq(module_sources, 1, at) \o <<entry>>
                        \o SubSeq(module_sources, at + 1, Len(module_sources))
        /\ module_metadata' = Append(module_metadata,
               [path |-> f.path, alias |-> f.alias, nan |-> f.nan])
        /\ bstack' = Pop(bstack)
    /\ UNCHANGED dvars
    /\ UNCHANGED <<fs, firstRun, phase, processing, ret, bundled, requested>>
    /\ UNCHANGED gvars
    /\ UNCHANGED opened

\* _include_module: the body is back: namespace it, store it, record it
IncludeFinish ==
    /\ phase = "bundle" /\ bstack # <<>>
    /\ LET f == Top(bstack) IN
        /\ f.fn = "include" /\ f.pc = "await"
        /\ module_sources' = SetItem(module_sources, FrameKey(f), ModuleBody(f, ret))
        /\ module_metadata' = Append(module_metadata,
               [path |-> f.path, alias |-> f.alias, nan |-> f.nan])
        /\ bstack' = Pop(bstack)
    /\ UNCHANGED dvars
    /\ UNCHANGED <<fs, firstRun, phase, processing, ret, bundled, requested>>
    /\ UNCHANGED gvars
    /\ UNCHANGED opened

\* bundle(): _process_file(entry_path) returned: build the text
BundleFinish ==
    /\ phase = "bundle" /\ bstack = <<>>
    /\ bundled' = CombinedText(module_sources, ret)
    /\ phase' = "done"
    /\ UNCHANGED dvars
    /\ UNCHANGED <<fs, firstRun, module_sources, processing, module_metadata, bstack, ret,
                   requested>>
    /\ UNCHANGED gvars
    /\ UNCHANGED opened

---------------------------------------------------------------------------
(* build_file and build_project around the two passes *)

\* pryzma.json of the project; its entry_point names a.pryzma
ConfigPath == Path(ProjectRoot, "pryzma", "json")

\* os.path.exists of a path that names a file
exists(p) == isfile(p)

\* The checks that end in sys.exit(1): build_file wants the entry file,
\* build_project the project directory, its pryzma.json and the entry file
FatalChecksPass ==
    IF builder = "build_file" THEN exists(EntryPath)
    ELSE isdir(ProjectRoot) /\ exists(ConfigPath) /\ exists(EntryPath)

\* Variant of BuildAbort: the build goes on into the graph pass
BuildAbort_GoOn ==
    /\ phase = "start"
    /\ ~FatalChecksPass
    /\ phase' = "graph"
    /\ vstack' = <<VFrame(EntryPath, <<>>)>>
    /\ resolutions' = 1
    /\ UNCHANGED <<denied, builder, auto_fetch, missing_before, fetch_i, fetched,
                   manifest_payload, warnings, manifest, artifact>>
    /\ UNCHANGED <<fs, firstRun, visited, ordered, graph, missing, cycles>>
    /\ UNCHANGED bvars

\* build_file / build_project: a fatal check fails: sys.exit(1)
BuildAbort ==
    /\ phase = "start"
    /\ ~FatalChecksPass
    /\ phase' = "aborted"
    /\ UNCHANGED dvars
    /\ UNCHANGED <<fs, firstRun>>
    /\ UNCHANGED gvars
    /\ UNCHANGED bvars

\* build_file / build_project: the checks pass: the first graph pass starts
BuildBegin ==
    /\ phase = "start"
    /\ FatalChecksPass
    /\ phase' = "graph"
    /\ vstack' = <<VFrame(EntryPath, <<>>)>>
    /\ resolutions' = 1
    /\ UNCHANGED <<denied, builder, auto_fetch, missing_before, fetch_i, fetched,
                   manifest_payload, warnings, manifest, artifact>>
    /\ UNCHANGED <<fs, firstRun, visited, ordered, graph, missing, cycles>>
    /\ UNCHANGED bvars

\* infer_package_name_from_reference.  A package name is the sequence of
\* its "/"-separated segments, <<>> for None: the text before the first "::"
\* if there is one, else nothing for a name with a "/" or a leading ".",
\* else the name
infer_package_name_from_reference(ref) ==
    IF ref = <<>> THEN <<>>
    ELSE LET w == Unquote(ref[1])
             n == FullName(w)
         IN  IF Len(SplitColons(n)) > 1 THEN w.dir \o <<Head(SplitColons(n))>>
             ELSE IF w.dir # <<>> THEN <<>>
             ELSE <<n>>

\* os.path.join(PACKAGES_DIR, package_name), normalised
package_path(pkg) == NormDir(PACKAGES_DIR \o pkg, <<>>)

\* The files a fetched package brings: its main file, or the module s of
\* the package p
PackageFiles(pkg) ==
    LET name == pkg[Len(pkg)] IN
    IF name = "p" THEN {Path(package_path(pkg), "s", "pryzma")}
    ELSE {Path(package_path(pkg), name, "pryzma")}

PackageText == <<FuncLine(<<"g">>)>>

\* What a ppm_install call may do: return at once for a package directory
\* that exists; otherwise install the package, give up after printing, or
\* raise
Outcomes(pkg) ==
    IF isdir(package_path(pkg)) THEN {"present"}
    ELSE {"installed", "failed", "raised"}

\* build_file / build_project: the first resolution has missing entries and
\* auto_fetch is set: the auto-fetch loop starts on a copy of them
FetchBegin ==
    /\ phase = "graph" /\ vstack = <<>>
    /\ FetchWanted
    /\ phase' = "fetch"
    /\ missing_before' = missing
    /\ fetch_i' = 1
    /\ UNCHANGED <<denied, builder, auto_fetch, resolutions, fetched,
                   manifest_payload, warnings, manifest, artifact>>
    /\ UNCHANGED <<fs, firstRun>>
    /\ UNCHANGED gvars
    /\ UNCHANGED bvars

\* The auto-fetch loop: no package name is inferred from the issue's target
FetchSkip ==
    /\ phase = "fetch" /\ fetch_i <= Len(missing_before)
    /\ infer_package_name_from_reference(missing_before[fetch_i].target) = <<>>
    /\ fetch_i' = fetch_i + 1
    /\ UNCHANGED <<denied, builder, auto_fetch, resolutions, missing_before, fetched,
                   manifest_payload, warnings, manifest, artifact>>
    /\ UNCHANGED <<fs, firstRun, phase>>
    /\ UNCHANGED gvars
    /\ UNCHANGED bvars

\* The auto-fetch loop: ppm_install is called with the inferred package; an
\* exception it raises is caught and printed
FetchInstall ==
    /\ phase = "fetch" /\ fetch_i <= Len(missing_before)
    /\ LET pkg == infer_package_name_from_reference(missing_before[fetch_i].target) IN
        /\ pkg # <<>>
        /\ \E outcome \in Outcomes(pkg) :
            /\ fetched' = Append(fetched, [package |-> pkg, outcome |-> outcome,
                                           issue |-> fetch_i])
            /\ fs' = IF outcome = "installed"
                     THEN [f \in DOMAIN fs \cup PackageFiles(pkg) |->
                              IF f \in DOMAIN fs THEN fs[f] ELSE PackageText]
                     ELSE fs
    /\ fetch_i' = fetch_i + 1
    /\ UNCHANGED <<denied, builder, auto_fetch, resolutions, missing_before,
                   manifest_payload, warnings, manifest, artifact>>
    /\ UNCHANGED <<firstRun, phase>>
    /\ UNCHANGED gvars
    /\ UNCHANGED bvars

\* build_file / build_project: the loop is over: resolve_pryzma_dependencies
\* is called again, with fresh visited, ordered, graph, missing and cycles
Reresolve ==
    /\ phase = "fetch" /\ fetch_i > Len(missing_before)
    /\ phase' = "graph"
    /\ resolutions' = resolutions + 1
    /\ visited' = {}
    /\ ordered' = <<>>
    /\ graph' = << >>
    /\ missing' = <<>>
    /\ cycles' = <<>>
    /\ vstack' = <<VFrame(EntryPath, <<>>)>>
    /\ UNCHANGED <<denied, builder, auto_fetch, missing_before, fetch_i, fetched,
                   manifest_payload, warnings, manifest, artifact>>
    /\ UNCHANGED <<fs, firstRun>>
    /\ UNCHANGED bvars

\* build_file / build_project: bundle() returned: the bundler's module
\* metadata joins the payload and the manifest file is written
WriteManifest ==
    /\ phase = "done"
    /\ LET payload == [entry_point |-> manifest_payload.entry_point,
                       ordered_files |-> manifest_payload.ordered_files,
                       missing |-> manifest_payload.missing,
                       cycles |-> manifest_payload.cycles,
                       bundled_modules |-> module_metadata]
       IN  /\ manifest_payload' = payload
           /\ manifest' = Append(manifest, payload)
    /\ phase' = "manifest"
    /\ UNCHANGED <<denied, builder, auto_fetch, resolutions, missing_before, fetch_i,
                   fetched, warnings, artifact>>
    /\ UNCHANGED <<fs, firstRun>>
    /\ UNCHANGED gvars
    /\ UNCHANGED bvars

\* build_file / build_project: the generated file, which embeds the bundled
\* source, is written
WriteArtifact ==
    /\ phase = "manifest"
    /\ artifact' = Append(artifact, bundled)
    /\ phase' = "built"
    /\ UNCHANGED <<denied, builder, auto_fetch, resolutions, missing_before, fetch_i,
                   fetched, manifest_payload, warnings, manifest>>
    /\ UNCHANGED <<fs, firstRun>>
    /\ UNCHANGED gvars
    /\ UNCHANGED bvars

---------------------------------------------------------------------------
(* The source trees and the build *)

\* The most directives a modelled tree holds
MaxDirectives == 3

FileA == EntryPath

FileB == Path(ProjectRoot, "b", "pryzma")

FileC == Path(ProjectRoot, "c", "pryzma")

Use(stem) == UseLine(<<W(stem)>>)

UseAs(stem, alias) == UseLine(<<W(stem), W("as"), W(alias)>>)

UseNan(stem) == UseLine(<<W(stem), W("with"), W("nan")>>)

Insert(stem) == InsertLine(<<W(stem)>>)

\* The directive lines the entry file a.pryzma may hold ("zz" names no file)
DirectivesA ==
    { Use("b"), UseAs("b", "m"), UseAs("b", "b"), UseNan("b"),
      UseLine(<<Word(TRUE, <<>>, "c", "")>>), UseAs("c", "m"),
      Insert("b"), InsertLine(<<Word(FALSE, <<".">>, "c", "pryzma")>>),
      Use("a"), Insert("a"), Use("zz") }

\* The directive lines b.pryzma may hold
DirectivesB ==
    { Use("a"), Use("b"), Use("c"), UseAs("c", "m"), UseNan("c"),
      Insert("c"), Insert("a"), Insert("b"), Insert("zz") }

\* The directive lines c.pryzma may hold
DirectivesC == { Use("b"), Insert("b"), Use("c"), Use("a"), Insert("a") }

\* No line, or one line of a set
Slot(lines) == {<<>>} \cup {<<l>> : l \in lines}

\* The tree with the given directive lines in its slots
Tree(s1, s2, sb, sc) ==
    [p \in {FileA, FileB, FileC} |->
        IF p = FileA
        THEN <<TextLine("a1")>> \o s1 \o s2 \o <<FuncLine(<<"main">>)>>
        ELSE IF p = FileB
        THEN <<FuncLine(<<"f">>)>> \o sb \o <<CommentLine>>
        ELSE <<FuncLine(<<"m", "g">>)>> \o sc]

\* Two cycles through a: a -> b -> a, and a -> c -> b -> a, which closes
\* through the edge from c to b
TwoCycles == Tree(<<Use("b")>>, <<Use("c")>>, <<Use("a")>>, <<Use("b")>>)

Trees ==
    { Tree(s1, s2, sb, sc) :
        <<s1, s2, sb, sc>> \in
            { q \in Slot(DirectivesA) \X Slot(DirectivesA)
                    \X Slot(DirectivesB) \X Slot(DirectivesC) :
                Len(q[1]) + Len(q[2]) + Len(q[3]) + Len(q[4]) <= MaxDirectives } }
    \cup {TwoCycles}

\* a refers to itself; a and b refer to each other or b to itself; a, b and
\* c form a chain that c closes (or not); a repeats a use and b refers to a
\* missing file or back to a.  Every reference is a use or an #insert.
Refs(stem) == {Use(stem), Insert(stem)}

CyclicTrees ==
    {Tree(<<da>>, <<>>, <<>>, <<>>) : da \in Refs("a")}
    \cup {Tree(<<da>>, <<>>, <<db>>, <<>>) :
              da \in Refs("b"), db \in Refs("a") \cup Refs("b")}
    \cup {Tree(<<da>>, <<>>, <<db>>, sc) :
              da \in Refs("b"), db \in Refs("c"),
              sc \in Slot(Refs("a") \cup Refs("b") \cup Refs("c"))}
    \cup {Tree(<<Use("b")>>, <<Use("b")>>, <<db>>, <<>>) :
              db \in Refs("zz") \cup Refs("a")}

\* build_file on a tree: visit(entry_path, []) is the first call
InitOn(trees) ==
    /\ fs \in trees
    /\ phase = "graph"
    /\ visited = {}
    /\ ordered = <<>>
    /\ graph = << >>
    /\ missing = <<>>
    /\ cycles = <<>>
    /\ vstack = <<VFrame(EntryPath, <<>>)>>
    /\ module_sources = <<>>
    /\ processing = {}
    /\ module_metadata = <<>>
    /\ bstack = <<>>
    /\ ret = <<>>
    /\ bundled = <<>>
    /\ requested = <<>>
    /\ opened = {}
    /\ firstRun = [n |-> 0, bundled |-> <<>>, metadata |-> <<>>]
    /\ denied = {}
    /\ builder = "build_file"
    /\ auto_fetch = FALSE
    /\ resolutions = 1
    /\ missing_before = <<>>
    /\ fetch_i = 1
    /\ fetched = <<>>
    /\ manifest_payload = <<>>
    /\ warnings = <<>>
    /\ manifest = <<>>
    /\ artifact = <<>>

Init == InitOn(Trees)

InitCyclic == InitOn(CyclicTrees)

Next ==
    \/ VisitCycle
    \/ VisitSeen
    \/ VisitScan
    \/ VisitMissing
    \/ VisitRecurse
    \/ VisitReturn
    \/ StartBundle
    \/ ProcessSkip
    \/ ProcessStart
    \/ ProcessUseSkip
    \/ ProcessUse
    \/ ProcessInsertSkip
    \/ ProcessInsert
    \/ ProcessInsertReturn
    \/ ProcessOther
    \/ ProcessReturn
    \/ IncludeSkip
    \/ IncludeStart
    \/ IncludeFinish
    \/ BundleFinish

Spec == Init /\ [][Next]_vars

\* The build on the cyclic trees.  The walks are synchronous code: a step
\* that can be taken is taken.
FairSpec == InitCyclic /\ [][Next]_vars /\ WF_vars(Next)

---------------------------------------------------------------------------
(* Builds on laid-out trees: sub-directories, src, packages, unreadable   *)
(* files, auto-fetch                                                       *)

\* The most optional files a laid-out tree holds
MaxOptional == 2

SubDir == ProjectRoot \o <<"sub">>

SrcDir == ProjectRoot \o <<"src">>

FileD == Path(SubDir, "d", "pryzma")

\* The files a reference to x, p::s or p::q::s may name
OptionalFiles ==
    { Path(SubDir, "x", "pryzma"), Path(SubDir, "x", ""),
      Path(ProjectRoot, "x", "pryzma"), Path(ProjectRoot, "x", ""),
      Path(SrcDir, "x", "pryzma"),
      Path(PACKAGES_DIR \o <<"x">>, "x", "pryzma"),
      Path(PACKAGES_DIR \o <<"x">>, "x", "prz"),
      Path(PACKAGES_DIR \o <<"p">>, "s", "pryzma"),
      Path(PACKAGES_DIR \o <<"p">>, "s", "prz"),
      Path(PACKAGES_DIR \o <<"p", "q">>, "s", "pryzma") }

\* The references d.pryzma, in /proj/sub, may make
References ==
    { W("x"), Word(TRUE, <<>>, "x", ""), Word(FALSE, <<>>, "x", "pryzma"),
      Word(FALSE, <<".">>, "x", ""), Word(FALSE, <<"..">>, "x", ""),
      Word(FALSE, ProjectRoot, "x", "pryzma"),
      Word(FALSE, PACKAGES_DIR \o <<"x">>, "x", "pryzma"),
      W("p::s"), W("p::q::s"), Word(FALSE, <<".">>, "p::s", ""),
      W("zz"), Word(TRUE, <<>>, "zz", "") }

DirectivesD ==
    {UseLine(<<r>>) : r \in References}
    \cup {InsertLine(<<W("x")>>), InsertLine(<<Word(TRUE, <<>>, "zz", "")>>)}

\* a.pryzma uses sub/d, d.pryzma holds one directive or none, config tells
\* whether pryzma.json is there
Layout(present, sd, config) ==
    [p \in {FileA, FileD} \cup present \cup (IF config THEN {ConfigPath} ELSE {}) |->
        IF p = FileA
        THEN <<TextLine("a1"), UseLine(<<Word(FALSE, <<"sub">>, "d", "")>>),
               FuncLine(<<"main">>)>>
        ELSE IF p = FileD THEN <<FuncLine(<<"f">>)>> \o sd
        ELSE IF p = ConfigPath THEN <<TextLine("entry_point: a.pryzma")>>
        ELSE PackageText]

LayoutTrees ==
    { Layout(present, sd, FALSE) :
        present \in {S \in SUBSET OptionalFiles : Cardinality(S) <= MaxOptional},
        sd \in Slot(DirectivesD) }

\* A tree of the cyclic family with pryzma.json added
WithConfig(tree) ==
    [p \in DOMAIN tree \cup {ConfigPath} |->
        IF p = ConfigPath THEN <<TextLine("entry_point: a.pryzma")>> ELSE tree[p]]

\* A tree without the file p
Without(tree, p) == [q \in DOMAIN tree \ {p} |-> tree[q]]

\* What a build is started on: the tree, the files that cannot be read, the
\* command and its auto-fetch option
\* A file named like a keyword, as.pryzma, and the entry file's `use as`
FileAs == Path(ProjectRoot, "as", "pryzma")

KeywordNamed ==
    (FileA :> <<TextLine("a1"), Use("as"), FuncLine(<<"main">>)>>)
    @@ (FileAs :> <<FuncLine(<<"f">>)>>)

Build(tree, dn, cmd, af) ==
    [fs |-> tree, denied |-> dn, builder |-> cmd, auto_fetch |-> af]

Builds ==
    {Build(t, {}, "build_file", af) : t \in LayoutTrees, af \in BOOLEAN}
    \cup {Build(WithConfig(t), dn, cmd, af) :
              t \in CyclicTrees, dn \in {{}, {FileA}, {FileB}, {FileC}},
              cmd \in {"build_file", "build_project"}, af \in BOOLEAN}
    \cup {Build(t, {}, cmd, af) :
              t \in {<< >>, Without(Tree(<<Use("b")>>, <<>>, <<>>, <<>>), FileA),
                     Without(WithConfig(Tree(<<Use("b")>>, <<>>, <<>>, <<>>)), FileA),
                     Tree(<<Use("zz")>>, <<Use("b")>>, <<>>, <<>>)},
              cmd \in {"build_file", "build_project"}, af \in BOOLEAN}
    \cup {Build(Tree(<<UseLine(<<W("as"), W("m"), W("b")>>)>>, <<>>, <<>>, <<>>),
                dn, "build_file", FALSE) : dn \in {{}, {FileB}}}
    \cup {Build(KeywordNamed, {}, "build_file", FALSE)}

\* build_file or build_project has been called
InitBuild ==
    /\ \E b \in Builds :
          /\ fs = b.fs
          /\ denied = b.denied
          /\ builder = b.builder
          /\ auto_fetch = b.auto_fetch
    /\ phase = "start"
    /\ visited = {}
    /\ ordered = <<>>
    /\ graph = << >>
    /\ missing = <<>>
    /\ cycles = <<>>
    /\ vstack = <<>>
    /\ module_sources = <<>>
    /\ processing = {}
    /\ module_metadata = <<>>
    /\ bstack = <<>>
    /\ ret = <<>>
    /\ bundled = <<>>
    /\ requested = <<>>
    /\ opened = {}
    /\ firstRun = [n |-> 0, bundled |-> <<>>, metadata |-> <<>>]
    /\ resolutions = 0
    /\ missing_before = <<>>
    /\ fetch_i = 1
    /\ fetched = <<>>
    /\ manifest_payload = <<>>
    /\ warnings = <<>>
    /\ manifest = <<>>
    /\ artifact = <<>>

NextBuild ==
    \/ Next
    \/ BuildAbort
    \/ BuildBegin
    \/ VisitDenied
    \/ ProcessDenied
    \/ FetchBegin
    \/ FetchSkip
    \/ FetchInstall
    \/ Reresolve
    \/ WriteManifest
    \/ WriteArtifact

BuildSpec == InitBuild /\ [][NextBuild]_vars


---------------------------------------------------------------------------
(* Trees whose entry file holds one use line of any words *)

MaxTokens == 3

\* The words a use line is made of: two targets (one quoted), an alias, the
\* two keywords (one in capitals) and the spellings of the nan modifier
UseWords ==
    { W("b"), Word(TRUE, <<>>, "c", ""), W("m"), W("with"), W("WITH"), W("as"),
      W("nan"), W("#nan") }

RECURSIVE WordSeqs(_)
\* The sequences of 1..n words
WordSeqs(n) ==
    IF n = 0 THEN {}
    ELSE {<<w>> : w \in UseWords}
         \cup {Append(q, w) : q \in WordSeqs(n - 1), w \in UseWords}

\* a.pryzma holds the use line and at most one more directive
UseTrees ==
    { Tree(<<UseLine(toks)>>, s2, <<>>, <<>>) :
        toks \in WordSeqs(MaxTokens),
        s2 \in Slot({Use("b"), Insert("b"), Insert("zz"), Use("a")}) }

InitUse == InitOn(UseTrees)

UseSpec == InitUse /\ [][Next]_vars

---------------------------------------------------------------------------
(* The dependency graph of a tree, for the properties below *)

\* What each directive of a file resolves to, in line order
Targets(p) ==
    LET ds == parse_pryzma_directives(p)
    IN  [k \in 1..Len(ds) |->
            resolve_pryzma_reference(ds[k].target, dirname(p), ProjectRoot)]

\* The resolved dependencies of a file, in line order
Edges(p) == SelectSeq(Targets(p), LAMBDA t : t # NoPath)

Succ(p) == {Edges(p)[k] : k \in 1..Len(Edges(p))}

RECURSIVE ReachFrom(_)
\* The files reachable from a set of files in zero or more edges
ReachFrom(S) ==
    LET T == S \cup UNION {Succ(p) : p \in S}
    IN  IF T = S THEN S ELSE ReachFrom(T)

Reachable == ReachFrom({EntryPath})

AcyclicTree == \A p \in DOMAIN fs : p \notin ReachFrom(Succ(p))

FullyResolvable ==
    \A p \in DOMAIN fs : \A k \in 1..Len(Targets(p)) : Targets(p)[k] # NoPath

RECURSIVE DfsVisit(_, _), DfsChildren(_, _)
\* Depth-first first-discovery order: a file, then the files discovered from
\* each of its dependencies in line order
DfsVisit(p, acc) ==
    IF InSeq(p, acc) THEN acc ELSE DfsChildren(Edges(p), Append(acc, p))

DfsChildren(cs, acc) ==
    IF cs = <<>> THEN acc ELSE DfsChildren(Tail(cs), DfsVisit(Head(cs), acc))

NoDuplicates(s) == \A i, j \in 1..Len(s) : s[i] = s[j] => i = j

SeqSet(s) == {s[k] : k \in 1..Len(s)}

GraphReturned == phase # "graph"

---------------------------------------------------------------------------
(* Properties *)

\* C1: on an acyclic tree whose directives all resolve, the graph pass
\* returns in `ordered` every file reachable from the entry exactly once, in
\* depth-first first-discovery order, and an empty `missing`.
C1_OrderedIsDfsPreorder ==
    (GraphReturned /\ AcyclicTree /\ FullyResolvable) =>
        /\ ordered = DfsVisit(EntryPath, <<>>)
        /\ SeqSet(ordered) = Reachable
        /\ NoDuplicates(ordered)
        /\ ordered[1] = EntryPath
        /\ missing = <<>>

\* A diamond: a uses b then c, b uses c; c is discovered through b
C1_Witness ==
    /\ phase = "done" /\ AcyclicTree /\ FullyResolvable
    /\ ordered = <<FileA, FileB, FileC>>
    /\ graph[FileA] = <<FileB, FileC>>
    /\ graph[FileB] = <<FileC>>

\* The file p holds exactly one directive, a use that resolves to q
OneUseTo(p, q) ==
    LET ds == parse_pryzma_directives(p)
    IN  Len(ds) = 1 /\ ds[1].type = "use" /\ Targets(p) = <<q>>

\* C2: when the entry a uses b and b uses a (one directive each), the graph
\* pass returns exactly one cycle, the sequence a, b, a.
C2_SingleCycleABA ==
    (GraphReturned /\ OneUseTo(FileA, FileB) /\ OneUseTo(FileB, FileA)) =>
        cycles = << <<FileA, FileB, FileA>> >>

C2_Witness ==
    /\ phase = "done" /\ OneUseTo(FileA, FileB) /\ OneUseTo(FileB, FileA)
    /\ Len(cycles) = 1 /\ Len(ordered) = 2

NumFiles == Cardinality(DOMAIN fs)

\* The calls of fn ("process" or "include") on the bundler's call stack
CallDepth(fn) == Cardinality({k \in 1..Len(bstack) : bstack[k].fn = fn})

\* The original reading of C3's bound: no more nested calls than files
C3_DepthAtMostFiles ==
    /\ Len(vstack) <= NumFiles
    /\ CallDepth("process") <= NumFiles

DepthBounds ==
    /\ Len(vstack) <= NumFiles + 1
    /\ \A k \in 1..Len(vstack) : Len(vstack[k].trail) <= NumFiles
    /\ CallDepth("process") <= NumFiles + 1
    /\ CallDepth("include") <= NumFiles
    /\ Len(bstack) <= 2 * NumFiles + 1
    /\ Cardinality(processing) <= NumFiles

\* C3 (amended): on every tree, cyclic or not, the graph pass and the
\* bundling pass both end; the trail and the in-progress set never hold more
\* files than the tree has, and the nesting of visit and of _process_file
\* calls is at most that number plus one (the call that finds the file on
\* the trail or in progress and returns at once).
C3_TerminatesWithBoundedDepth ==
    /\ <>(phase = "done")
    /\ []DepthBounds

\* A build that ended on a tree where a, b and c form one cycle through
\* both kinds of directive
C3_Witness ==
    /\ phase = "done" /\ ~AcyclicTree
    /\ fs[FileA][2].kind = "use" /\ fs[FileB][2].kind = "insert"
    /\ cycles = << <<FileA, FileB, FileC, FileA>> >>

---------------------------------------------------------------------------
(* The module table and the metadata list, for the properties below *)

\* The key a metadata entry stands for (alias None is the empty alias)
MetaKey(m) == [path |-> m.path, alias |-> m.alias, nan |-> m.nan]

MetaKeys(metadata) == [k \in 1..Len(metadata) |-> MetaKey(metadata[k])]

RECURSIVE FirstOccurrences(_, _)
\* The members of s in the order of their first occurrence
FirstOccurrences(s, acc) ==
    IF s = <<>> THEN acc
    ELSE FirstOccurrences(Tail(s),
             IF InSeq(Head(s), acc) THEN acc ELSE Append(acc, Head(s)))

\* The lines of file p that are use lines whose target resolves
UseLinesOf(p) ==
    {i \in 1..Len(fs[p]) :
        /\ fs[p][i].kind = "use"
        /\ resolve_pryzma_reference(parse_use_statement(fs[p][i]).target,
                                    dirname(p), ProjectRoot) # NoPath}

\* The path, effective alias and flag the use line i of file p asks for
UseKeyAt(p, i) ==
    LET parsed == parse_use_statement(fs[p][i])
        resolved == resolve_pryzma_reference(parsed.target, dirname(p), ProjectRoot)
    IN  [path |-> resolved, alias |-> UseAlias(parsed, resolved),
         nan |-> NanFlag(parsed)]

\* The default key of a file: used without alias or modifier
PlainKey(p) == [path |-> p, alias |-> splitext_stem(p), nan |-> FALSE]

\* C4 as stated: the table lists the keys in the order _include_module first
\* met them (entry uses M1, M1 uses M2: M1 before M2)
C4_FirstEncounterOrder ==
    phase = "done" => Keys(module_sources) = requested

\* C4 (amended): the table lists the keys in the order in which their
\* inclusions first completed, which is the order of first occurrence in the
\* metadata list; every module the entry uses is in the table, and on a tree
\* without cycles every module a recorded module uses is recorded before it
\* (entry uses M1, M1 uses M2: M2 before M1).
C4_CompletionOrder ==
    /\ Keys(module_sources) = FirstOccurrences(MetaKeys(module_metadata), <<>>)
    /\ phase = "done" =>
          \A i \in UseLinesOf(EntryPath) : UseKeyAt(EntryPath, i) \in KeySet(module_sources)
    /\ (phase = "done" /\ AcyclicTree) =>
          \A k \in 1..Len(module_sources) :
              \A i \in UseLinesOf(module_sources[k].key.path) :
                  \E j \in 1..(k - 1) :
                      module_sources[j].key = UseKeyAt(module_sources[k].key.path, i)

\* a uses b and b uses c: c is recorded first, although b was met first
C4_Witness ==
    /\ phase = "done" /\ OneUseTo(FileA, FileB) /\ OneUseTo(FileB, FileC)
    /\ requested = <<PlainKey(FileB), PlainKey(FileC)>>
    /\ Keys(module_sources) = <<PlainKey(FileC), PlainKey(FileB)>>
    /\ MetaKeys(module_metadata) = <<PlainKey(FileC), PlainKey(FileB)>>

\* C5 as stated: each key is included at most once, so the metadata list
\* holds exactly one entry per key of the module table, in the same order.
C5_OneEntryPerKey ==
    MetaKeys(module_metadata) = Keys(module_sources)

\* The files the bundler has read by the end: the files the entry reaches
\* through use and #insert lines
ProcessedFiles == Reachable

\* The alias a use line writes after "as" ("" when it writes none)
WrittenAlias(p, i) == parse_use_statement(fs[p][i]).alias

\* The function headers of a stored body all carry the key's alias
InOwnNamespace(e) ==
    e.key.nan \/ \A k \in 1..Len(e.body) :
                    e.body[k].kind = "func" => e.body[k].name[1] = e.key.alias

\* The table holds separate entries for the use lines i of p and j of q
SeparateEntries(p, i, q, j) ==
    \E x, y \in 1..Len(module_sources) :
        /\ x # y
        /\ module_sources[x].key = UseKeyAt(p, i)
        /\ module_sources[y].key = UseKeyAt(q, j)
        /\ InOwnNamespace(module_sources[x])
        /\ InOwnNamespace(module_sources[y])
        /\ InSeq(UseKeyAt(p, i), MetaKeys(module_metadata))
        /\ InSeq(UseKeyAt(q, j), MetaKeys(module_metadata))

\* C6 as stated: two use lines for one file that differ in the alias they
\* write or in the nan modifier give two separate entries.
C6_SeparateWhenWrittenAliasDiffers ==
    phase = "done" =>
        \A p, q \in ProcessedFiles : \A i \in UseLinesOf(p) : \A j \in UseLinesOf(q) :
            ( /\ UseKeyAt(p, i).path = UseKeyAt(q, j).path
              /\ \/ WrittenAlias(p, i) # WrittenAlias(q, j)
                 \/ UseKeyAt(p, i).nan # UseKeyAt(q, j).nan )
            => SeparateEntries(p, i, q, j)

\* C6 (amended): two use lines for one file that differ in the effective
\* alias (the alias written, or the file's base name when none is written
\* and nan is off) or in the nan modifier give two separate entries of the
\* table and of the metadata, each body under its own alias.
C6_SeparateWhenKeyDiffers ==
    phase = "done" =>
        \A p, q \in ProcessedFiles : \A i \in UseLinesOf(p) : \A j \in UseLinesOf(q) :
            ( /\ UseKeyAt(p, i).path = UseKeyAt(q, j).path
              /\ \/ UseKeyAt(p, i).alias # UseKeyAt(q, j).alias
                 \/ UseKeyAt(p, i).nan # UseKeyAt(q, j).nan )
            => SeparateEntries(p, i, q, j)

\* a holds "use b as m" and "use b with nan": b is bundled twice, once with
\* /m.f and once with /f
C6_Witness ==
    /\ phase = "done"
    /\ fs[FileA][2] = UseAs("b", "m") /\ fs[FileA][3] = UseNan("b")
    /\ Keys(module_sources) = << [path |-> FileB, alias |-> "m", nan |-> FALSE],
                                 [path |-> FileB, alias |-> "", nan |-> TRUE] >>
    /\ module_sources[1].body # <<>> /\ module_sources[2].body # <<>>
    /\ Head(module_sources[1].body) = FuncLine(<<"m", "f">>)
    /\ Head(module_sources[2].body) = FuncLine(<<"f">>)

\* The call of _include_module that is about to store its body
IncludeReturns ==
    /\ phase = "bundle" /\ bstack # <<>>
    /\ Top(bstack).fn = "include" /\ Top(bstack).pc = "await"
    /\ bstack' = Pop(bstack)

\* The body the table holds for a key after the step
StoredBody(key) ==
    module_sources'[CHOOSE k \in 1..Len(module_sources') :
                        module_sources'[k].key = key].body

\* The namespace of an inclusion: the alias, or the base name of the file
EffectiveAlias(f) == IF f.alias # "" THEN f.alias ELSE splitext_stem(f.path)

\* C7 as stated: every header /name of a module included under alias m
\* without nan becomes /m.name, and with nan every line stays as it is.
C7_EveryHeaderPrefixed ==
    [][IncludeReturns =>
        LET f == Top(bstack)
            body == StoredBody([path |-> f.path, alias |-> f.alias, nan |-> f.nan])
        IN  /\ Len(body) = Len(ret)
            /\ \A k \in 1..Len(ret) :
                 IF f.nan THEN body[k] = ret[k]
                 ELSE ret[k].kind = "func" =>
                          body[k] = FuncLine(<<EffectiveAlias(f)>> \o ret[k].name)
      ]_vars

\* C7 (amended): every header /name of a module included under alias m
\* without nan becomes /m.name unless name already starts with "m.", which
\* is left as it is; with nan every line stays as it is.
C7_HeadersNamespaced ==
    [][IncludeReturns =>
        LET f == Top(bstack)
            m == EffectiveAlias(f)
            body == StoredBody([path |-> f.path, alias |-> f.alias, nan |-> f.nan])
        IN  /\ Len(body) = Len(ret)
            /\ \A k \in 1..Len(ret) :
                 IF f.nan THEN body[k] = ret[k]
                 ELSE /\ ret[k].kind = "func" =>
                          body[k] = FuncLine(IF Len(ret[k].name) > 1 /\ ret[k].name[1] = m
                                             THEN ret[k].name
                                             ELSE <<m>> \o ret[k].name)
                      /\ ret[k].kind = "text" => body[k] = ret[k]
      ]_vars

\* c (header /m.g) was bundled as m and b (header /f) as b and without
\* namespace
C7_Witness ==
    /\ phase = "done"
    /\ \E x, y, z \in 1..Len(module_sources) :
        /\ module_sources[x].key = [path |-> FileC, alias |-> "m", nan |-> FALSE]
        /\ module_sources[x].body = <<FuncLine(<<"m", "g">>)>>
        /\ module_sources[y].key = PlainKey(FileB)
        /\ module_sources[y].body # <<>>
        /\ Head(module_sources[y].body) = FuncLine(<<"b", "f">>)
        /\ module_sources[z].key = [path |-> FileC, alias |-> "", nan |-> TRUE]
        /\ module_sources[z].body = <<FuncLine(<<"m", "g">>)>>

\* A text without its empty lines
NonBlank(text) == SelectSeq(text, LAMBDA l : l.kind # "blank")

\* The delimiter comment of the k-th module block: position and label
Delimiter(k) ==
    LET key == module_sources[k].key
    IN  [kind |-> "header", toks |-> <<>>, name |-> <<>>,
         id |-> IF key.alias # "" THEN key.alias ELSE FullName(key.path),
         n |-> k]

\* C8: the text bundle() returns is, empty lines aside, every recorded module
\* in table order, each after a delimiter comment with its 1-based position
\* and its alias (the file's base name when the alias is empty), and then
\* the processed entry body; the text holds no use line.
C8_BundleLayout ==
    phase = "done" =>
        /\ NonBlank(bundled) =
               Flatten([k \in 1..Len(module_sources) |->
                           <<Delimiter(k)>> \o NonBlank(module_sources[k].body)])
               \o NonBlank(ret)
        /\ \A k \in 1..Len(bundled) : bundled[k].kind # "use"

\* a holds "use b as m" and "use b with nan": block 1 is labelled m, block 2
\* b.pryzma, and the entry body follows without its use lines
C8_Witness ==
    /\ phase = "done"
    /\ fs[FileA][2] = UseAs("b", "m") /\ fs[FileA][3] = UseNan("b")
    /\ Len(module_sources) = 2
    /\ Head(bundled) = [kind |-> "header", toks |-> <<>>, name |-> <<>>,
                        id |-> "m", n |-> 1]
    /\ InSeq([kind |-> "header", toks |-> <<>>, name |-> <<>>,
              id |-> "b.pryzma", n |-> 2], bundled)
    /\ ret = <<TextLine("a1"), FuncLine(<<"main">>)>>
    /\ SubSeq(bundled, Len(bundled) - 1, Len(bundled)) = ret

RECURSIVE Expand(_, _)
\* The text of file p with every resolvable #insert line replaced in place by
\* the text of its target, use lines dropped; a file met while it is being
\* expanded (S), or that cannot be read, gives no text
Expand(p, S) ==
    IF p \in S \/ p \notin DOMAIN fs THEN <<>>
    ELSE Flatten([i \in 1..Len(fs[p]) |->
            LET l == fs[p][i]
                target == resolve_pryzma_reference(
                              _sanitize_reference_fragment(l.toks), dirname(p), ProjectRoot)
            IN  IF l.kind = "use" THEN <<>>
                ELSE IF l.kind = "insert"
                THEN (IF target = NoPath THEN <<>> ELSE Expand(target, S \cup {p}))
                ELSE <<l>>])

\* A header under namespace m
InNamespace(l, m) ==
    IF l.kind = "func" /\ ~(Len(l.name) > 1 /\ l.name[1] = m)
    THEN [l EXCEPT !.name = <<m>> \o @]
    ELSE l

RECURSIVE ExpandOwn(_, _, _)
\* Expand, with the headers of p's own lines (and of no inserted line) under
\* namespace m
ExpandOwn(p, S, m) ==
    IF p \in S \/ p \notin DOMAIN fs THEN <<>>
    ELSE Flatten([i \in 1..Len(fs[p]) |->
            LET l == fs[p][i]
                target == resolve_pryzma_reference(
                              _sanitize_reference_fragment(l.toks), dirname(p), ProjectRoot)
            IN  IF l.kind = "use" THEN <<>>
                ELSE IF l.kind = "insert"
                THEN (IF target = NoPath THEN <<>> ELSE Expand(target, S \cup {p}))
                ELSE <<InNamespace(l, m)>>])

\* A text without its "//" comment lines
Code(text) == SelectSeq(text, LAMBDA l : l.kind # "comment")

\* The call of _process_file that is about to return the text of its file
ProcessReturns ==
    /\ phase = "bundle" /\ bstack # <<>>
    /\ Top(bstack).fn = "process" /\ Top(bstack).pc = "loop"
    /\ Top(bstack).i > Len(Top(bstack).lines)
    /\ bstack' = Pop(bstack)

\* C9 as stated: an #insert line is replaced in place by the processed text
\* of its target, and inserted text gets no prefix, in the entry file and in
\* a file bundled as a used module alike.
C9_InsertedTextNeverPrefixed ==
    [][ /\ ProcessReturns => ret' = Expand(Top(bstack).path, processing')
        /\ IncludeReturns =>
             LET f == Top(bstack)
                 body == StoredBody([path |-> f.path, alias |-> f.alias, nan |-> f.nan])
             IN  Code(body) = Code(IF f.nan THEN Expand(f.path, processing)
                                   ELSE ExpandOwn(f.path, processing, EffectiveAlias(f)))
      ]_vars

\* C9 (amended): an #insert line is replaced in place by the processed text
\* of its target and #insert itself adds no prefix: the entry body holds the
\* inserted text as it is; inside a file bundled as a used module the
\* inserted text is part of the module body and gets the module's prefix
\* with the rest of it (none under nan).
C9_InsertSplicedInPlace ==
    /\ [][ /\ ProcessReturns => ret' = Expand(Top(bstack).path, processing')
           /\ IncludeReturns =>
                LET f == Top(bstack)
                    body == StoredBody([path |-> f.path, alias |-> f.alias, nan |-> f.nan])
                    text == Expand(f.path, processing)
                IN  Code(body) =
                        Code(IF f.nan THEN text
                             ELSE [k \in 1..Len(text) |->
                                      InNamespace(text[k], EffectiveAlias(f))])
         ]_vars
    /\ [](phase = "done" => ret = Expand(EntryPath, {}))

\* a inserts ./c.pryzma between its two lines and uses b, and b inserts c
\* between its header and its comment: the entry body holds /m.g as it is,
\* the body of b holds it as /b.m.g
C9_Witness ==
    /\ phase = "done"
    /\ ret = <<TextLine("a1"), FuncLine(<<"m", "g">>), FuncLine(<<"main">>)>>
    /\ Len(module_sources) = 1
    /\ module_sources[1].key = PlainKey(FileB)
    /\ Code(module_sources[1].body) = <<FuncLine(<<"b", "f">>), FuncLine(<<"b", "m", "g">>)>>
    /\ Len(module_sources[1].body) = 3

---------------------------------------------------------------------------
(* Two bundle() runs on one tree *)

\* A second PryzmaSourceBundler is made and bundles the same entry; what the
\* first one returned is kept in firstRun
Rebundle ==
    /\ phase = "done" /\ firstRun.n = 0
    /\ firstRun' = [n |-> 1, bundled |-> bundled, metadata |-> module_metadata]
    /\ phase' = "bundle"
    /\ module_sources' = <<>>
    /\ processing' = {}
    /\ module_metadata' = <<>>
    /\ bstack' = <<PFrame(EntryPath)>>
    /\ ret' = <<>>
    /\ bundled' = <<>>
    /\ requested' = <<>>
    /\ UNCHANGED fs
    /\ UNCHANGED dvars
    /\ UNCHANGED gvars
    /\ opened' = {}

NextTwice == Next \/ Rebundle

SpecTwice == Init /\ [][NextTwice]_vars

---------------------------------------------------------------------------
(* Unresolvable references *)

\* The files are the ones the graph pass resolved against: no package is
\* being fetched
TreeSettled == phase # "fetch"

\* The directive text of line i of file p as it is written, quotes removed:
\* the first word after the keyword
WrittenTarget(p, i) == <<Unquote(fs[p][i].toks[1])>>

\* C11: every missing entry stands for a directive that does not resolve
\* (resolve_pryzma_reference returns None for it) and carries that
\* directive's source file, its 1-based line, its kind and its target text
\* exactly as the scanner recorded it: the text written in the file, with no
\* extension appended and no path normalisation.
C11_MissingCarriesRawTarget ==
    \A k \in 1..Len(missing) :
        LET m == missing[k] IN
        /\ m.source \in DOMAIN fs
        /\ m.line \in 1..Len(fs[m.source])
        /\ fs[m.source][m.line].kind = m.type
        /\ m.type \in {"use", "insert"}
        /\ m.target = WrittenTarget(m.source, m.line)
        /\ \E j \in 1..Len(parse_pryzma_directives(m.source)) :
               parse_pryzma_directives(m.source)[j] =
                   [type |-> m.type, target |-> m.target, line |-> m.line]
        /\ TreeSettled =>
               resolve_pryzma_reference(m.target, dirname(m.source), ProjectRoot) = NoPath

\* d.pryzma, in /proj/sub, uses ../x on its line 2 and no x or x.pryzma is
\* in /proj: the entry keeps "../x"
C11_Witness ==
    /\ GraphReturned
    /\ \E k \in 1..Len(missing) :
           missing[k] = [source |-> FileD, target |-> <<Word(FALSE, <<"..">>, "x", "")>>,
                         line |-> 2, type |-> "use"]
    /\ resolve_pryzma_reference(<<Word(FALSE, <<"..">>, "x", "")>>, SubDir, ProjectRoot) = NoPath

\* resolve_pryzma_dependencies has returned and no file changed since
ResolutionReturned ==
    \/ phase = "graph" /\ vstack = <<>>
    \/ phase \in {"bundle", "done", "manifest", "built"}

\* The missing entries of one source file, in the order they were appended
MissingOf(p) == SelectSeq(missing, LAMBDA m : m.source = p)

\* The directives of a file that do not resolve, as missing entries
Unresolved(p) ==
    LET ds == parse_pryzma_directives(p)
        failing == SelectSeq([k \in 1..Len(ds) |-> k], LAMBDA k : Targets(p)[k] = NoPath)
    IN  [j \in 1..Len(failing) |->
            [source |-> p, target |-> ds[failing[j]].target,
             line |-> ds[failing[j]].line, type |-> ds[failing[j]].type]]

\* C12: when the graph pass returns, every directive of every scanned file
\* has left exactly one record: an edge in the file's adjacency list (and its
\* target was visited) if it resolves, one missing entry if it does not; the
\* directives after a failing one are among them.
C12_EdgeOrMissingPerDirective ==
    ResolutionReturned =>
        /\ \A p \in visited :
              /\ graph[p] = Edges(p)
              /\ MissingOf(p) = Unresolved(p)
              /\ Len(graph[p]) + Len(MissingOf(p)) = Len(parse_pryzma_directives(p))
              /\ \A k \in 1..Len(graph[p]) : graph[p][k] \in visited
        /\ \A k \in 1..Len(missing) : missing[k].source \in visited

\* a.pryzma uses zz, which names nothing, and then b: the failure is
\* recorded and the later directive still yields its edge and visit
C12_Witness ==
    /\ ResolutionReturned
    /\ FileA \in DOMAIN fs
    /\ fs[FileA] = <<TextLine("a1"), Use("zz"), Use("b"), FuncLine(<<"main">>)>>
    /\ MissingOf(FileA) = <<[source |-> FileA, target |-> <<W("zz")>>,
                             line |-> 2, type |-> "use"]>>
    /\ graph[FileA] = <<FileB>>
    /\ FileB \in visited

---------------------------------------------------------------------------
(* The search order of the resolver *)

\* The file a root and a written reference name, as given
AsGiven(root, w) == Path(NormDir(root \o w.dir, <<>>), w.stem, w.ext)

\* The same with ".pryzma" appended to the written name
WithExtension(root, w) == Path(NormDir(root \o w.dir, <<>>), FullName(w), "pryzma")

\* The places a non-absolute reference written in a file of directory cur is
\* looked up at, in order
SearchOrder(w, cur) ==
    LET at(root) == IF w.ext = "pryzma" THEN <<AsGiven(root, w)>>
                    ELSE <<AsGiven(root, w), WithExtension(root, w)>>
    IN  at(cur) \o at(ProjectRoot) \o (IF isdir(SrcDir) THEN at(SrcDir) ELSE <<>>)

\* Directive k of file p resolves to the file q
ResolvesTo(p, k, q) == Targets(p)[k] = q /\ InSeq(q, graph[p])

\* C13: a non-absolute reference resolves to the first existing file in the
\* order: directory of the referring file, project root, project root/src
\* (when that directory exists), and within each root the reference as given
\* before the reference with .pryzma appended.
C13_FirstExistingInSearchOrder ==
    ResolutionReturned =>
        \A p \in visited : \A k \in 1..Len(parse_pryzma_directives(p)) :
            LET w == parse_pryzma_directives(p)[k].target[1]
                order == SearchOrder(w, dirname(p))
            IN  ~isabs(w) =>
                    \A i \in 1..Len(order) :
                        (isfile(order[i]) /\ \A j \in 1..(i - 1) : ~isfile(order[j]))
                            => ResolvesTo(p, k, order[i])

\* d.pryzma in /proj/sub uses x; /proj/sub/x.pryzma and /proj/x both exist:
\* the file next to d wins although /proj/x matches the reference as given
C13_Witness ==
    /\ ResolutionReturned
    /\ FileD \in DOMAIN fs
    /\ fs[FileD] = <<FuncLine(<<"f">>), Use("x")>>
    /\ isfile(Path(SubDir, "x", "pryzma")) /\ isfile(Path(ProjectRoot, "x", ""))
    /\ graph[FileD] = <<Path(SubDir, "x", "pryzma")>>

---------------------------------------------------------------------------
(* File system before packages *)

\* Every place of the file system a written reference is looked up at
FileCandidates(w, cur) ==
    IF isabs(w)
    THEN (IF w.ext = "pryzma" THEN <<AsGiven(<<>>, w)>>
          ELSE <<AsGiven(<<>>, w), WithExtension(<<>>, w)>>)
    ELSE SearchOrder(w, cur)

\* The reference is absolute, holds a path separator or starts with "." or "/"
PathLike(w) == w.dir # <<>>

\* The path lies inside the package repository
InRepository(q) ==
    q # NoPath /\ Len(q.dir) >= Len(PACKAGES_DIR)
    /\ SubSeq(q.dir, 1, Len(PACKAGES_DIR)) = PACKAGES_DIR

\* The file found on the file system wins over a package of the same name
FileBeatsPackage ==
    \A p \in visited : \A k \in 1..Len(parse_pryzma_directives(p)) :
        LET w == parse_pryzma_directives(p)[k].target[1]
            places == FileCandidates(w, dirname(p))
        IN  (\E i \in 1..Len(places) : isfile(places[i]))
                => \E i \in 1..Len(places) : ResolvesTo(p, k, places[i])

\* C14 as stated: a file-system match wins over a package, and a path-like
\* reference (absolute, with a path separator, or starting with "." or "/")
\* never resolves to a path inside the package repository.
C14_PathLikeNeverInRepository ==
    ResolutionReturned =>
        /\ FileBeatsPackage
        /\ \A p \in visited : \A k \in 1..Len(parse_pryzma_directives(p)) :
               PathLike(parse_pryzma_directives(p)[k].target[1])
                   => ~InRepository(Targets(p)[k])

\* C14, amended: a file-system match wins over a package, and a path-like
\* reference is never resolved by the package lookup: it resolves to a place
\* its own spelling names on the file system (which may lie inside the
\* package repository) or not at all.
C14_PathLikeNeverPackageResolved ==
    ResolutionReturned =>
        /\ FileBeatsPackage
        /\ \A p \in visited : \A k \in 1..Len(parse_pryzma_directives(p)) :
               LET w == parse_pryzma_directives(p)[k].target[1]
                   places == FileCandidates(w, dirname(p))
               IN  PathLike(w) =>
                       /\ _resolve_package_reference(<<w>>) = NoPath
                       /\ Targets(p)[k] \in SeqSet(places) \cup {NoPath}
                       /\ (Targets(p)[k] = NoPath) = (\A i \in 1..Len(places) : ~isfile(places[i]))

\* d.pryzma uses x; /proj/src/x.pryzma and the installed package
\* /pkgs/x/x.pryzma both exist: the file in src is taken
C14_Witness ==
    /\ ResolutionReturned
    /\ FileD \in DOMAIN fs
    /\ fs[FileD] = <<FuncLine(<<"f">>), UseLine(<<Word(TRUE, <<>>, "x", "")>>)>>
    /\ isfile(Path(PACKAGES_DIR \o <<"x">>, "x", "pryzma"))
    /\ graph[FileD] = <<Path(SrcDir, "x", "pryzma")>>

---------------------------------------------------------------------------
(* Package references *)

\* Where a package reference lives in the repository, with a given extension
PackagePlace(n, ext) ==
    CASE n = "p::s" -> Path(<<"/", "pkgs", "p">>, "s", ext)
      [] n = "p::q::s" -> Path(<<"/", "pkgs", "p", "q">>, "s", ext)
      [] OTHER -> Path(<<"/", "pkgs", n>>, n, ext)

\* Directive k of file p left a missing entry
RecordedMissing(p, k) ==
    LET d == parse_pryzma_directives(p)[k]
    IN  InSeq([source |-> p, target |-> d.target, line |-> d.line, type |-> d.type],
              missing)

\* C15: a reference that no place of the file system matches and that is
\* not path-like resolves as a package reference: p1::..::pk::stem to
\* packageRoot/p1/../pk/stem.pryzma, a bare name to
\* packageRoot/name/name.pryzma; the .prz file of the same place is returned
\* only when the .pryzma file is absent and the .prz file exists; with
\* neither the reference is not found.
C15_PackagePlaces ==
    ResolutionReturned =>
        \A p \in visited : \A k \in 1..Len(parse_pryzma_directives(p)) :
            LET w == parse_pryzma_directives(p)[k].target[1]
                places == FileCandidates(w, dirname(p))
                main == PackagePlace(FullName(w), "pryzma")
                alt == PackagePlace(FullName(w), "prz")
            IN  (~PathLike(w) /\ \A i \in 1..Len(places) : ~isfile(places[i])) =>
                    /\ isfile(main) => ResolvesTo(p, k, main)
                    /\ (~isfile(main) /\ isfile(alt)) => ResolvesTo(p, k, alt)
                    /\ (~isfile(main) /\ ~isfile(alt)) =>
                           (Targets(p)[k] = NoPath /\ RecordedMissing(p, k))
                    /\ _resolve_package_reference(<<w>>) = Targets(p)[k]

\* d.pryzma uses p::s and the package p holds s.pryzma and s.prz: the
\* reference resolves to /pkgs/p/s.pryzma
C15_Witness ==
    /\ ResolutionReturned
    /\ FileD \in DOMAIN fs
    /\ fs[FileD] = <<FuncLine(<<"f">>), UseLine(<<W("p::s")>>)>>
    /\ isfile(Path(PACKAGES_DIR \o <<"p">>, "s", "prz"))
    /\ graph[FileD] = <<Path(PACKAGES_DIR \o <<"p">>, "s", "pryzma")>>

---------------------------------------------------------------------------
(* One scan per file *)

IsPrefix(s, u) == Len(s) <= Len(u) /\ SubSeq(u, 1, Len(s)) = s

\* The calls of visit() that are scanning the directives of p
Scanning(stack, p) == {k \in 1..Len(stack) : stack[k].path = p /\ stack[k].pc = "loop"}

\* The files visited are the files listed and the files with an adjacency
\* list, each listed once and scanned by at most one call
OneEntryPerVisited ==
    /\ NoDuplicates(ordered)
    /\ SeqSet(ordered) = visited
    /\ DOMAIN graph = visited
    /\ \A p \in visited : Cardinality(Scanning(vstack, p)) <= 1

\* A step of one graph pass: visited and ordered only grow; a scan begins
\* only on a file that was not visited, with an empty adjacency list; a list
\* is only appended to, and only by the one call that scans its file
ScanOnceStep ==
    (phase = "graph" /\ resolutions' = resolutions) =>
        /\ visited \subseteq visited'
        /\ IsPrefix(ordered, ordered')
        /\ \A p \in visited' \ visited :
               /\ ordered' = Append(ordered, p)
               /\ graph'[p] = <<>>
        /\ \A p \in visited :
               /\ IsPrefix(graph[p], graph'[p])
               /\ graph'[p] # graph[p] =>
                      (Top(vstack).path = p /\ Top(vstack).pc = "loop")
               /\ Scanning(vstack', p) \subseteq Scanning(vstack, p)

\* C16: within one graph pass visited only grows and no file is scanned
\* twice: a file reached through several paths is listed once in ordered
\* and its adjacency list is created once and filled by one scan only.
C16_ScannedOnce == []OneEntryPerVisited /\ [][ScanOnceStep]_vars

\* a.pryzma uses b twice: b is listed once, scanned once
C16_Witness ==
    /\ ResolutionReturned
    /\ FileA \in DOMAIN graph
    /\ graph[FileA] = <<FileB, FileB>>
    /\ ordered = <<FileA, FileB>>

---------------------------------------------------------------------------
(* Unreadable files *)

\* The files open() cannot read: absent, or refused
Unreadable(p) == p \notin DOMAIN fs \/ p \in denied

\* C17: a file that cannot be read, absent or permission-denied, is passed
\* over in both passes: no error leaves resolve_pryzma_dependencies or
\* bundle(), the file has no edges in the graph and gives no text.
C17_UnreadableFileIsSkipped ==
    /\ phase # "error"
    /\ \A p \in DOMAIN graph : Unreadable(p) => graph[p] = <<>>
    /\ \A k \in 1..Len(module_sources) :
           Unreadable(module_sources[k].key.path) => module_sources[k].body = <<>>

---------------------------------------------------------------------------
(* Fatal checks *)

\* Nothing of the graph pass, the bundler, the manifest or the artifact
NothingDone ==
    /\ resolutions = 0
    /\ visited = {} /\ ordered = <<>> /\ graph = << >>
    /\ missing = <<>> /\ cycles = <<>> /\ vstack = <<>>
    /\ module_sources = <<>> /\ module_metadata = <<>> /\ bstack = <<>>
    /\ bundled = <<>>
    /\ fetched = <<>>
    /\ manifest_payload = <<>> /\ manifest = <<>> /\ artifact = <<>>

\* The entry file or the project root is not there
EntryOrRootMissing == ~exists(EntryPath) \/ ~isdir(ProjectRoot)

\* C18: when the entry file or the project root does not exist, the build
\* (build_file as well as build_project) aborts as its first step: no graph
\* pass, no bundler run, no manifest and no artifact ever happen.
C18_AbortsBeforeAnyWork ==
    /\ [](EntryOrRootMissing => (phase \in {"start", "aborted"} /\ NothingDone))
    /\ [][(phase = "start" /\ EntryOrRootMissing) => phase' = "aborted"]_vars

\* build_project on a project that has its pryzma.json but not the entry
\* file it names: the build is aborted and nothing was done
C18_Witness ==
    /\ phase = "aborted"
    /\ builder = "build_project"
    /\ exists(ConfigPath) /\ ~exists(EntryPath)
    /\ NothingDone

---------------------------------------------------------------------------
(* The order of a build *)

\* The bundler has been started
BundlerStarted == phase \in {"bundle", "done", "manifest", "built"}

\* What the manifest file holds for the state of the two passes
ManifestOfPasses ==
    [entry_point |-> EntryPath, ordered_files |-> ordered, missing |-> missing,
     cycles |-> cycles, bundled_modules |-> module_metadata]

\* C19: a build whose fatal checks pass never stops short: the graph pass
\* is complete before the bundler starts, the manifest is written exactly
\* once, after bundling, with the graph pass's ordered_files, missing and
\* cycles and the bundler's module metadata, and the artifact is written
\* after it; no build past its checks ends in an error.
C19_ManifestOnceThenArtifact ==
    /\ phase # "error"
    /\ BundlerStarted => (vstack = <<>> /\ resolutions >= 1)
    /\ bstack # <<>> => phase = "bundle"
    /\ Len(manifest) <= 1 /\ Len(artifact) <= 1
    /\ (manifest # <<>>) = (phase \in {"manifest", "built"})
    /\ manifest # <<>> => manifest = <<ManifestOfPasses>>
    /\ (artifact # <<>>) = (phase = "built")
    /\ artifact # <<>> => artifact = <<bundled>>

---------------------------------------------------------------------------
(* Auto-fetch *)

\* The package name a missing target stands for as C20 words it: none for a
\* target with a "/" or a leading ".", the part before "::" for a::b, else
\* the name
PackageOfTarget(ref) ==
    LET w == Unquote(ref[1])
        n == FullName(w)
    IN  IF PathLike(w) THEN <<>>
        ELSE IF Len(SplitColons(n)) > 1 THEN <<Head(SplitColons(n))>>
        ELSE <<n>>

\* The issues the auto-fetch loop has passed
IssuesPassed == 1..(fetch_i - 1)

\* C20: auto-fetch runs only when it was asked for and the first graph pass
\* reported missing entries; ppm_install is called once for each missing
\* entry whose target stands for a package (a::b for a, none for a target
\* with "/" or a leading "."), in order; an exception of a call does not
\* end the build; the graph pass is run again exactly once after the last
\* call; the bundler starts only after that, and the warnings and the
\* manifest are those of the second pass.
C20_FetchPerPackageReference ==
    /\ (phase = "fetch" \/ fetched # <<>> \/ resolutions > 1)
           => (auto_fetch /\ missing_before # <<>>)
    /\ \A k \in 1..Len(fetched) :
           /\ fetched[k].issue \in IssuesPassed
           /\ fetched[k].package = PackageOfTarget(missing_before[fetched[k].issue].target)
           /\ \A j \in 1..(k - 1) : fetched[j].issue < fetched[k].issue
    /\ {fetched[k].issue : k \in 1..Len(fetched)} =
           {i \in IssuesPassed : PackageOfTarget(missing_before[i].target) # <<>>}
    /\ phase = "error" => fetched = <<>>
    /\ resolutions <= 2
    /\ resolutions = 2 => fetch_i = Len(missing_before) + 1
    /\ (BundlerStarted /\ missing_before # <<>>) => resolutions = 2
    /\ BundlerStarted =>
           /\ warnings = [missing |-> missing, cycles |-> cycles]
           /\ manifest_payload.missing = missing
           /\ manifest_payload.ordered_files = ordered

---------------------------------------------------------------------------
(* Cycles and shared dependencies *)

\* The trail of every call of visit() is the list of the files whose calls
\* are below it on the stack, and each of those calls is scanning its file
TrailIsStack ==
    \A k \in 1..Len(vstack) :
        /\ Len(vstack[k].trail) = k - 1
        /\ \A j \in 1..(k - 1) :
               /\ vstack[k].trail[j] = vstack[j].path
               /\ vstack[j].pc = "loop"

\* A call of visit() has just been entered for the target of an edge
Arriving == phase = "graph" /\ vstack # <<>> /\ Top(vstack).pc = "enter"

\* The file being arrived at is on the trail: its own visit has not returned
OnTrail == InSeq(Top(vstack).path, Top(vstack).trail)

\* The file being arrived at was visited and its visit has returned
FullyVisited == Top(vstack).path \in visited /\ ~OnTrail

\* A step of the graph pass: cycles changes only by one entry appended on
\* arriving at a file of the trail; arriving at a fully visited file returns
\* at once and leaves cycles, visited, ordered and graph as they are
CycleOnlyOnTrailStep ==
    (phase = "graph" /\ resolutions' = resolutions) =>
        /\ cycles' # cycles =>
               /\ Arriving /\ OnTrail
               /\ Len(cycles') = Len(cycles) + 1
               /\ SubSeq(cycles', 1, Len(cycles)) = cycles
        /\ (Arriving /\ FullyVisited) =>
               /\ cycles' = cycles
               /\ visited' = visited /\ ordered' = ordered /\ graph' = graph
               /\ vstack' = Pop(vstack)

\* C21: the graph pass records a cycle only when the target of an edge is on
\* the current trail, that is, a file whose visit has not returned; an edge
\* to a file that was visited and is no longer on the trail records no cycle
\* and starts no second scan.
C21_CycleOnlyOnTrail == []TrailIsStack /\ [][CycleOnlyOnTrailStep]_vars

\* A diamond: a uses b and c, b uses c; c is reached twice, no cycle
C21_Witness ==
    /\ GraphReturned
    /\ FileA \in DOMAIN graph /\ FileB \in DOMAIN graph
    /\ graph[FileA] = <<FileB, FileC>>
    /\ graph[FileB] = <<FileC>>
    /\ ordered = <<FileA, FileB, FileC>>
    /\ cycles = <<>>

---------------------------------------------------------------------------
(* The shape of a recorded cycle *)

\* c starts and ends with the same file, its nodes before the closing one are
\* pairwise distinct, and each consecutive pair is an edge of the adjacency map
ClosedPath(c) ==
    /\ Len(c) >= 2
    /\ c[1] = c[Len(c)]
    /\ \A i, j \in 1..(Len(c) - 1) : i # j => c[i] # c[j]
    /\ \A i \in 1..(Len(c) - 1) :
           /\ c[i] \in DOMAIN graph
           /\ InSeq(c[i + 1], graph[c[i]])

\* The files of the open calls of visit() from the first call for p up to the
\* call that holds the directive leading back to p, followed by p
TrailSlice(stack, p) ==
    LET n == Len(stack) - 1
        first == CHOOSE k \in 1..n :
                     stack[k].path = p /\ \A j \in 1..(k - 1) : stack[j].path # p
    IN  [i \in 1..(n - first + 1) |-> stack[first + i - 1].path] \o <<p>>

\* A step that records a cycle records the trail slice of the repeated file
RecordsTrailSliceStep ==
    (phase = "graph" /\ resolutions' = resolutions /\ cycles' # cycles) =>
        cycles' = Append(cycles, TrailSlice(vstack, Top(vstack).path))

\* C22: every entry of cycles is a closed path: it starts and ends with the
\* same file, it is the trail slice from that file's first occurrence
\* through the file holding the offending directive followed by the repeated
\* file, its nodes other than the closing one are pairwise distinct, and each
\* consecutive pair is an edge recorded in the adjacency map.
C22_CyclesAreClosedPaths ==
    /\ [](\A k \in 1..Len(cycles) : ClosedPath(cycles[k]))
    /\ [][RecordsTrailSliceStep]_vars

\* a uses b, b uses c, c uses b: the entry is b, c, b, without a
C22_Witness ==
    /\ GraphReturned
    /\ ordered = <<FileA, FileB, FileC>>
    /\ cycles = << <<FileB, FileC, FileB>> >>

---------------------------------------------------------------------------
(* Re-entering a file that is in progress *)

RECURSIVE IsSubsequence(_, _)
\* s can be had from t by leaving lines out
IsSubsequence(s, t) ==
    IF s = <<>> THEN TRUE
    ELSE IF t = <<>> THEN FALSE
    ELSE IF Head(s) = Head(t) THEN IsSubsequence(Tail(s), Tail(t))
    ELSE IsSubsequence(s, Tail(t))

\* The lines of a text that are neither use nor #insert lines
OwnLines(text) == SelectSeq(text, LAMBDA l : l.kind \notin {"use", "insert"})

\* _process_file has been called for a file that is in progress
Reentered ==
    /\ phase = "bundle" /\ bstack # <<>>
    /\ Top(bstack).fn = "process" /\ Top(bstack).pc = "enter"
    /\ Top(bstack).path \in processing

\* The re-entry returns "" at once; no error, the in-progress set untouched,
\* the calls below it as they were
ReentryStep ==
    Reentered =>
        /\ ret' = <<>>
        /\ processing' = processing
        /\ phase' = "bundle"
        /\ bstack' = Pop(bstack)

\* Every call of _process_file has emitted, in order, each line of its file
\* it has passed that is no directive
OwnLinesEmitted ==
    \A k \in 1..Len(bstack) :
        (bstack[k].fn = "process" /\ bstack[k].pc \in {"loop", "await"}) =>
            /\ bstack[k].lines = fs[bstack[k].path]
            /\ IsSubsequence(OwnLines(SubSeq(bstack[k].lines, 1, bstack[k].i - 1)),
                              bstack[k].output)

\* The text a call of _process_file returns holds every own line of its file
ReturnsOwnLinesStep ==
    ProcessReturns => IsSubsequence(OwnLines(fs[Top(bstack).path]), ret')

\* C23: when _process_file is entered again for a file that is in progress,
\* the inner call gives empty text, without an error and without a change to
\* the in-progress set, and the outer call of that file still emits all of
\* the file's other lines.
C23_ReentryYieldsNothing ==
    /\ []OwnLinesEmitted
    /\ [][ReentryStep /\ ReturnsOwnLinesStep]_vars

\* a.pryzma inserts itself between its two lines: the entry body is the two
\* lines
C23_Witness ==
    /\ phase = "done"
    /\ fs = Tree(<<Insert("a")>>, <<>>, <<>>, <<>>)
    /\ processing = {}
    /\ ret = <<TextLine("a1"), FuncLine(<<"main">>)>>

---------------------------------------------------------------------------
(* The words of a use line *)

RECURSIVE Role(_, _)
\* What word i of a use line is: the word after an "as" is the alias; an
\* "as" elsewhere is the keyword; a word after a "with" or after a modifier
\* is a modifier; a "with" elsewhere is the keyword; any other word belongs
\* to the target
Role(tokens, i) ==
    LET before == IF i = 1 THEN "none" ELSE Role(tokens, i - 1) IN
    IF before = "as" THEN "alias"
    ELSE IF IsKeyword(tokens[i], "as") THEN "as"
    ELSE IF before \in {"with", "modifier"} THEN "modifier"
    ELSE IF IsKeyword(tokens[i], "with") THEN "with"
    ELSE "target"

\* The positions of a role, in line order
Positions(tokens, role) ==
    SelectSeq([i \in 1..Len(tokens) |-> i], LAMBDA i : Role(tokens, i) = role)

\* The parse of a use line by roles: the target words unquoted, the word
\* after "as" (the last one, "" when there is none), the modifiers in
\* lower case
ParseByRoles(tokens) ==
    LET ts == Positions(tokens, "target")
        as == Positions(tokens, "alias")
        ms == Positions(tokens, "modifier")
    IN  [target |-> [k \in 1..Len(ts) |-> Unquote(tokens[ts[k]])],
         alias |-> IF as = <<>> THEN ""
                   ELSE FullName(Unquote(tokens[as[Len(as)]])),
         directives |-> {Modifier(tokens[ms[k]]) : k \in 1..Len(ms)}]

\* Every use line of the tree parses by roles
UseLinesParseByRoles ==
    \A p \in DOMAIN fs : \A i \in 1..Len(fs[p]) :
        fs[p][i].kind = "use" =>
            parse_use_statement(fs[p][i]) = ParseByRoles(fs[p][i].toks)

\* _process_file calls _include_module for the use line it is at
IncludeCalled ==
    /\ phase = "bundle" /\ bstack # <<>>
    /\ AtLine(Top(bstack)) /\ CurLine(Top(bstack)).kind = "use"
    /\ Len(bstack') = Len(bstack) + 1

\* The flag handed to _include_module is set exactly when nan or #nan is
\* among the modifiers of the line
FlagFromModifiersStep ==
    IncludeCalled =>
        /\ Top(bstack').fn = "include"
        /\ Top(bstack').nan =
               ({"nan", "#nan"} \cap ParseByRoles(CurLine(Top(bstack)).toks).directives # {})

---------------------------------------------------------------------------
(* Dependencies before dependents *)

\* Each key of the list comes after the key of every use line of its file
DependenciesFirst(keys) ==
    \A k \in 1..Len(keys) :
        \A i \in UseLinesOf(keys[k].path) :
            \E j \in 1..(k - 1) : keys[j] = UseKeyAt(keys[k].path, i)

\* The line of the bundle text that holds the delimiter of table entry k
DelimiterAt(k) == {n \in 1..Len(bundled) : bundled[n] = Delimiter(k)}

\* In the text each module's block starts after the blocks of the modules
\* its file uses
BlocksAfterDependencies ==
    \A k \in 1..Len(module_sources) :
        /\ Cardinality(DelimiterAt(k)) = 1
        /\ \A i \in UseLinesOf(module_sources[k].key.path) :
               \E j \in 1..(k - 1) :
                   /\ module_sources[j].key = UseKeyAt(module_sources[k].key.path, i)
                   /\ \A n \in DelimiterAt(j), m \in DelimiterAt(k) : n < m

\* The table and the metadata list change only when a call of
\* _include_module has its processed text back, the processing of its file
\* over, and then by that call's entry
RecordedOnCompletionStep ==
    (phase = "bundle" /\
     (module_sources' # module_sources \/ module_metadata' # module_metadata) /\
     AcyclicTree) =>
        LET f == Top(bstack) IN
        /\ f.fn = "include" /\ f.pc = "await"
        /\ f.path \notin processing
        /\ module_metadata' = Append(module_metadata,
               [path |-> f.path, alias |-> f.alias, nan |-> f.nan])
        /\ Keys(module_sources') = Append(Keys(module_sources), FrameKey(f))

\* C25: on a tree without cycles every bundled module comes, in the table,
\* in bundled_modules and in the bundle text, after all modules its own file
\* includes through `use`: an entry is recorded when the module's processing
\* is complete, so dependencies precede dependents.
C25_DependenciesPrecedeDependents ==
    /\ []((module_metadata # <<>> /\ AcyclicTree) =>
             /\ DependenciesFirst(Keys(module_sources))
             /\ DependenciesFirst(MetaKeys(module_metadata)))
    /\ []((phase = "done" /\ AcyclicTree) => BlocksAfterDependencies)
    /\ [][RecordedOnCompletionStep]_vars

\* a uses b as m, b uses c with nan: c's block and entry come first
C25_Witness ==
    /\ phase = "done"
    /\ AcyclicTree
    /\ MetaKeys(module_metadata) =
           <<[path |-> FileC, alias |-> "", nan |-> TRUE],
             [path |-> FileB, alias |-> "m", nan |-> FALSE]>>
    /\ DelimiterAt(1) = {1}
    /\ \E n \in DelimiterAt(2) : n > 1

---------------------------------------------------------------------------
(* Cycles reported and cycles of the tree *)

\* Some file reachable from the entry file leads back to itself
ReachableCycle == \E p \in Reachable : p \in ReachFrom(Succ(p))

\* c is a cycle of the tree among the files reachable from the entry file
CycleOfTree(c) ==
    /\ Len(c) >= 2 /\ c[1] = c[Len(c)]
    /\ \A i \in 1..(Len(c) - 1) : c[i] \in Reachable /\ c[i + 1] \in Succ(c[i])

\* resolve_pryzma_dependencies is at its return statement
PassReturns == phase = "graph" /\ vstack = <<>>

\* C26: the graph pass returns a non-empty cycles list exactly when the
\* graph of resolved use / #insert edges reachable from the entry file has a
\* directed cycle, and every entry is a cycle of that graph; there need not
\* be one entry for each distinct cycle.
C26_CyclesIffCyclic ==
    PassReturns =>
        /\ (cycles # <<>>) = ReachableCycle
        /\ \A k \in 1..Len(cycles) : CycleOfTree(cycles[k])

\* a -> b -> a and a -> c -> b -> a: the second cycle closes through the edge
\* from c to b, met when b is fully visited, and is not listed
C26_Witness ==
    /\ PassReturns
    /\ fs = TwoCycles
    /\ graph = (FileA :> <<FileB, FileC>>) @@ (FileB :> <<FileA>>) @@ (FileC :> <<FileB>>)
    /\ cycles = << <<FileA, FileB, FileA>> >>

---------------------------------------------------------------------------
(* The files of the two walks *)

\* Every directive of the tree has a target of one word: a use line has at
\* most one word outside its modifiers and alias, an #insert line one word
SingleTokenTargets ==
    \A p \in DOMAIN fs : \A i \in 1..Len(fs[p]) :
        /\ fs[p][i].kind = "use" => Len(parse_use_statement(fs[p][i]).target) <= 1
        /\ fs[p][i].kind = "insert" => Len(fs[p][i].toks) = 1

\* bundle() has returned
BundleReturned == phase \in {"done", "manifest", "built"}

\* C27: on a tree whose directive targets are single words the two walks
\* agree on the files: the files the bundler has read when bundle() returns
\* (the entry file, the #insert targets it inlined, the modules it bundled)
\* are the files of the graph pass's ordered list, and every path of
\* bundled_modules is in ordered.
C27_WalksAgreeOnFiles ==
    (BundleReturned /\ SingleTokenTargets) =>
        /\ opened = SeqSet(ordered)
        /\ \A k \in 1..Len(module_metadata) : module_metadata[k].path \in SeqSet(ordered)

---------------------------------------------------------------------------
(* What namespacing leaves alone *)

\* The lines of text before namespacing that are in body, the text after it,
\* line for line, but for the function-definition headers
OnlyHeadersDiffer(text, body) ==
    /\ Len(body) = Len(text)
    /\ \A k \in 1..Len(text) :
           /\ body[k].kind = text[k].kind
           /\ text[k].kind # "func" => body[k] = text[k]

\* C28: namespacing a module body changes only its function-definition
\* header lines: every other line, a line that starts with a `//` comment
\* included, is the same before and after _prefix_module_functions, and the
\* number and the order of the lines are kept.
C28_OnlyHeadersChange ==
    [][ IncludeReturns =>
            OnlyHeadersDiffer(ret, StoredBody(FrameKey(Top(bstack)))) ]_vars

---------------------------------------------------------------------------
(* A use without alias and a use under the base name *)

\* Line i of file p is a resolving use line without the nan modifier that
\* writes no alias (plain), or writes the base name of its target as alias
PlainUse(p, i) ==
    /\ i \in UseLinesOf(p)
    /\ ~NanFlag(parse_use_statement(fs[p][i]))
    /\ WrittenAlias(p, i) = ""

BaseNameUse(p, i) ==
    /\ i \in UseLinesOf(p)
    /\ ~NanFlag(parse_use_statement(fs[p][i]))
    /\ WrittenAlias(p, i) = splitext_stem(UseTarget([path |-> p, lines |-> fs[p], i |-> i]))

\* The file a use line resolves to
UsedFile(p, i) == UseTarget([path |-> p, lines |-> fs[p], i |-> i])

\* The files that the files the bundler read use both ways
UsedBothWays ==
    {t \in DOMAIN fs :
        \E p, q \in opened : \E i \in 1..Len(fs[p]), j \in 1..Len(fs[q]) :
            /\ PlainUse(p, i) /\ UsedFile(p, i) = t
            /\ BaseNameUse(q, j) /\ UsedFile(q, j) = t}

\* Every use line for t in a file the bundler read is of one of the two forms
UsedOnlyThatWay(t) ==
    \A p \in opened : \A i \in UseLinesOf(p) :
        UsedFile(p, i) = t => (PlainUse(p, i) \/ BaseNameUse(p, i))

\* The places of the table, and of the metadata list, that hold file t
EntriesOf(t) == {k \in 1..Len(module_sources) : module_sources[k].key.path = t}

RecordsOf(t) == {k \in 1..Len(module_metadata) : module_metadata[k].path = t}

\* C29: a use of a file without alias and a use of the same file under an
\* alias equal to its base name (both without nan) give one ModuleKey, the
\* alias being defaulted before the key is built: the table holds the file
\* under that key (once, when it is used in no other way), and the metadata
\* records the base name as the alias, never an empty alias.
C29_DefaultAliasSharesKey ==
    BundleReturned =>
        \A t \in UsedBothWays :
            /\ \E k \in EntriesOf(t) : module_sources[k].key = PlainKey(t)
            /\ UsedOnlyThatWay(t) =>
                   /\ Cardinality(EntriesOf(t)) = 1
                   /\ RecordsOf(t) # {}
                   /\ \A k \in RecordsOf(t) : MetaKey(module_metadata[k]) = PlainKey(t)
            /\ \A k \in RecordsOf(t) :
                   ~module_metadata[k].nan => module_metadata[k].alias # ""

\* a holds `use b` and `use b as b`: one entry, recorded under alias b
C29_Witness ==
    /\ phase = "done"
    /\ fs[FileA][2] = Use("b") /\ fs[FileA][3] = UseAs("b", "b")
    /\ FileB \in UsedBothWays
    /\ Keys(module_sources) = <<PlainKey(FileB)>>
    /\ module_metadata = <<[path |-> FileB, alias |-> "b", nan |-> FALSE]>>

---------------------------------------------------------------------------
(* The in-progress set and the call stack *)

\* The calls of _process_file that have read their file and not returned
Processing(stack) ==
    {k \in 1..Len(stack) : stack[k].fn = "process" /\ stack[k].pc \in {"loop", "await"}}

\* The files of those calls
InProgress(stack) == {stack[k].path : k \in Processing(stack)}

\* The in-progress set is the set of the files being processed, no file is
\* being processed by two calls, and the set is empty when bundle() has
\* returned
SetIsStack ==
    /\ phase = "bundle" =>
           /\ processing = InProgress(bstack)
           /\ Cardinality(Processing(bstack)) = Cardinality(processing)
    /\ BundleReturned => (processing = {} /\ bstack = <<>>)

\* The set changes only by the file of the call on top of the stack: added
\* when the call has read the file, removed when the call returns
AddedAndRemovedStep ==
    (phase = "bundle" /\ phase' = "bundle" /\ processing' # processing) =>
        LET f == Top(bstack) IN
        /\ f.fn = "process"
        /\ \/ /\ f.pc = "enter"
              /\ processing' = processing \cup {f.path}
              /\ Len(bstack') = Len(bstack) /\ Top(bstack').pc = "loop"
           \/ /\ f.pc = "loop" /\ f.i > Len(f.lines)
              /\ processing' = processing \ {f.path}
              /\ bstack' = Pop(bstack)

\* C30: at every point of a bundling run the in-progress set is the set of
\* the files on the current _process_file recursion stack, a file being
\* added when its processing starts and removed when it ends, and the set
\* is empty whenever bundle() returns.
C30_InProgressIsStack == []SetIsStack /\ [][AddedAndRemovedStep]_vars

\* a uses b, b inserts c: while c is read, a, b and c are in progress
C30_Witness ==
    /\ phase = "bundle"
    /\ processing = {FileA, FileB, FileC}
    /\ Len(bstack) = 4
    /\ bstack[2].fn = "include"
    /\ Top(bstack).path = FileC /\ Top(bstack).pc = "loop"

============================================================================
